---- MODULE Spec2Model ----
(***************************************************************************)
(* A model of ptvsd/wrapper.py: the bridge between the VSCode debug        *)
(* protocol and the pydevd wire protocol.                                  *)
(*                                                                         *)
(*   IDMap                   the two dictionaries and the id counter       *)
(*   PydevdSocket            the sequence counter, the pending requests,   *)
(*                           the pipe to pydevd                            *)
(*   VSCodeMessageProcessor  the four IDMaps, the caches, the handlers     *)
(*                                                                         *)
(* A block of code under `with lock:` is one step; code outside a lock is  *)
(* split at every access to shared state.                                  *)
(***************************************************************************)
EXTENDS Integers, Sequences, FiniteSets, TLC

(***************************************************************************)
(* Bounds of the model.                                                    *)
(***************************************************************************)
\* the largest id one IDMap hands out
MaxIds == 4

\* the number of packets made for pydevd
MaxPackets == 2

\* the number of packets pydevd sends
MaxIncoming == 3

\* the number of requests read from VSCode
MaxRequests == 2

\* the number of packets pydevd sends about threads
MaxThreadPackets == 2

\* the number of setBreakpoints requests, and of breakpoints in one
MaxBpRequests == 2

MaxBps == 2

\* the number of stackTrace, scopes and variables requests, and of packets
\* pydevd sends about frames
MaxFrameRequests == 3

MaxFramePackets == 3

\* the number of packets pydevd sends about exceptions
MaxExceptionPackets == 3

\* the number of requests about the session, and of packets pydevd sends
\* while it starts
MaxSessionRequests == 2

MaxSessionPackets == 3

\* the number of stackTrace requests with startFrame and levels, and of
\* packets pydevd sends about the stack of a thread
MaxStackRequests == 1

MaxStackPackets == 2

\* the number of requests while the variables of one thread are looked at,
\* and of packets pydevd sends meanwhile
MaxVarRequests == 4

MaxVarPackets == 2

\* the number of requests that may fail, and of packets pydevd sends
\* meanwhile
MaxFailRequests == 3

MaxFailPackets == 2

(***************************************************************************)
(* Python dictionaries: functions with a finite domain.                    *)
(***************************************************************************)
EmptyDict == <<>>

DictSet(d, k, v) == [x \in (DOMAIN d) \cup {k} |-> IF x = k THEN v ELSE d[x]]

DictDel(d, k) == [x \in (DOMAIN d) \ {k} |-> d[x]]

Last(s) == s[Len(s)]

(***************************************************************************)
(* class IDMap.  A map is [v2p, p2v, next_id]: _vscode_to_pydevd,          *)
(* _pydevd_to_vscode and _next_id.                                         *)
(***************************************************************************)
IDMapInit == [v2p |-> EmptyDict, p2v |-> EmptyDict, next_id |-> 1]

\* A slip in add: the id is taken from the size of the dictionary instead of
\* the counter.
add_by_size(m, pydevd_id) ==
    LET vscode_id == Cardinality(DOMAIN m.v2p) + 1
    IN  [m  |-> [v2p     |-> DictSet(m.v2p, vscode_id, pydevd_id),
                 p2v     |-> DictSet(m.p2v, pydevd_id, vscode_id),
                 next_id |-> m.next_id + 1],
         id |-> vscode_id]

\* IDMap.add under the lock: the id handed out is the counter's value, the
\* counter moves on, both dictionaries are written.  The result is the map
\* and the id returned.
add(m, pydevd_id) ==
    LET vscode_id == m.next_id
    IN  [m  |-> [v2p     |-> DictSet(m.v2p, vscode_id, pydevd_id),
                 p2v     |-> DictSet(m.p2v, pydevd_id, vscode_id),
                 next_id |-> m.next_id + 1],
         id |-> vscode_id]

\* IDMap.remove; an argument that is None is the empty set, a given one a
\* singleton.  The result is the map as the call leaves it and whether a
\* KeyError was raised; the two del statements run one after the other, so
\* the first may have taken effect when the second raises.
remove(m, pydevd_id, vscode_id) ==
    LET noP  == pydevd_id = {}
        noV  == vscode_id = {}
        \* lines 86-89: resolve the missing key through the reverse map
        miss == IF noP
                THEN noV \/ ~(vscode_id \subseteq DOMAIN m.v2p)
                ELSE noV /\ ~(pydevd_id \subseteq DOMAIN m.p2v)
    IN  IF miss THEN [m |-> m, raised |-> TRUE]
        ELSE
          LET v  == IF noV THEN m.p2v[CHOOSE b \in pydevd_id : TRUE]
                    ELSE CHOOSE e \in vscode_id : TRUE
              p  == IF noP THEN m.v2p[v] ELSE CHOOSE b \in pydevd_id : TRUE
          IN  IF v \notin DOMAIN m.v2p
              THEN [m |-> m, raised |-> TRUE]
              ELSE LET m1 == [m EXCEPT !.v2p = DictDel(m.v2p, v)]
                   IN  IF p \notin DOMAIN m1.p2v
                       THEN [m |-> m1, raised |-> TRUE]
                       ELSE [m |-> [m1 EXCEPT !.p2v = DictDel(m1.p2v, p)],
                             raised |-> FALSE]

\* IDMap.to_pydevd: a plain read; KeyError when the id is not mapped.
to_pydevd_raises(m, vscode_id) == vscode_id \notin DOMAIN m.v2p

to_pydevd(m, vscode_id) == m.v2p[vscode_id]

\* IDMap.to_vscode, its first half: the read outside the lock.
to_vscode_hit(m, pydevd_id) == pydevd_id \in DOMAIN m.p2v

\* IDMap.to_vscode as one call with autogen=True: the id it returns.
to_vscode(m, pydevd_id) ==
    IF to_vscode_hit(m, pydevd_id) THEN m.p2v[pydevd_id]
    ELSE add(m, pydevd_id).id

\* IDMap.pairs, pydevd_ids, vscode_ids: copies taken under the lock.
pairs(m) == {<<b, m.p2v[b]>> : b \in DOMAIN m.p2v}

pydevd_ids(m) == DOMAIN m.p2v

vscode_ids(m) == DOMAIN m.v2p

(***************************************************************************)
(* class PydevdSocket.  A packet is [cmd_id, seq, args]; a pending request *)
(* is requests[seq] = [loop, fut], the future named by the sequence number *)
(* of the packet it waits for.                                             *)
(***************************************************************************)
\* PydevdSocket.__init__: self.seq
InitialSeq == 1000000000

\* A slip in make_packet: the counter is left where it was.
make_packet_no_step(s, cmd_id, args) ==
    [seq  |-> s,
     pkt  |-> [cmd_id |-> cmd_id, seq |-> s, args |-> args],
     next |-> s]

\* PydevdSocket.make_packet under the lock: the sequence number of the
\* packet, the packet, and the counter after the call.
make_packet(s, cmd_id, args) ==
    [seq  |-> s,
     pkt  |-> [cmd_id |-> cmd_id, seq |-> s, args |-> args],
     next |-> s + 1]

\* A slip in send: the pending request is read and left in the table.
requests_get(reqs, s) ==
    IF s \in DOMAIN reqs
    THEN [requests |-> reqs, fut |-> {reqs[s].fut}]
    ELSE [requests |-> reqs, fut |-> {}]

\* PydevdSocket.send, self.requests.pop(seq, (None, None)) under the lock:
\* the table after the call and the future found (none: the empty set).
requests_pop(reqs, s) ==
    IF s \in DOMAIN reqs
    THEN [requests |-> DictDel(reqs, s), fut |-> {reqs[s].fut}]
    ELSE [requests |-> reqs, fut |-> {}]

(***************************************************************************)
(* State.                                                                  *)
(***************************************************************************)
VARIABLES
    idmap,      \* an IDMap used through its methods alone
    alloc_log,  \* the ids idmap.add returned, in the order of the calls
    api_pc,     \* per caller of idmap: where it is inside to_vscode
    seq,        \* PydevdSocket.seq
    requests,   \* PydevdSocket.requests
    pipe,       \* the packets written to pipe_w, in the order written
    seq_log,    \* the sequence numbers make_packet returned, in call order
    chan_pc,    \* per caller of the socket: the packet it holds
    backend_pc, \* the thread of pydevd that calls send: where it is
    delivered,  \* the packets send was called with, and whether the
                \* sequence number was pending when send looked it up
    loop_queue, \* EventLoop: the calls handed to call_soon_threadsafe
    dispatched  \* the packets handed to event_handler

VARIABLES
    thread_map,        \* VSCodeMessageProcessor.thread_map
    frame_map,         \* VSCodeMessageProcessor.frame_map
    var_map,           \* VSCodeMessageProcessor.var_map
    bp_map,            \* VSCodeMessageProcessor.bp_map
    stack_traces,      \* VSCodeMessageProcessor.stack_traces
    active_exceptions, \* VSCodeMessageProcessor.active_exceptions
    sent,              \* the responses and events sent to VSCode, in order
    nreq,              \* the number of requests read from VSCode
    diag,              \* the exceptions handlers raised, in order: printed
                       \* by async_handler, or raised out of send
    server_pc,         \* the thread that reads VSCode's requests
    loop_pc,           \* the thread of the EventLoop
    waiting            \* the handlers suspended at a yield, by future

idmapVars == <<idmap, alloc_log, api_pc>>

mapVars == <<thread_map, frame_map, var_map, bp_map>>

cacheVars == <<stack_traces, active_exceptions>>

procVars == <<server_pc, loop_pc, waiting>>

sessVars == <<mapVars, cacheVars, procVars, sent, nreq, diag>>

chanVars == <<seq, requests, pipe, seq_log, chan_pc, backend_pc, delivered,
              loop_queue, dispatched>>

vars == <<idmapVars, chanVars, sessVars>>

(***************************************************************************)
(* IDMap through its methods, from two threads.                            *)
(***************************************************************************)
APICallers == {"vscode", "pydevd"}

BackendIds == {"a", "b"}

ApiIdle == [st |-> "idle", id |-> "a"]

\* add(pydevd_id)
ApiAdd(c, b) ==
    /\ api_pc[c].st = "idle"
    /\ idmap.next_id <= MaxIds
    /\ idmap' = add(idmap, b).m
    /\ alloc_log' = Append(alloc_log, add(idmap, b).id)
    /\ UNCHANGED <<api_pc, chanVars, sessVars>>

\* remove(pydevd_id, vscode_id) with either, both or none of the keys
ApiRemove(c, ps, vs) ==
    /\ api_pc[c].st = "idle"
    /\ idmap' = remove(idmap, ps, vs).m
    /\ UNCHANGED <<alloc_log, api_pc, chanVars, sessVars>>

\* to_vscode(pydevd_id, autogen=True), the lookup: a miss goes on to add
ApiToVscode(c, b) ==
    /\ api_pc[c].st = "idle"
    /\ api_pc' = IF to_vscode_hit(idmap, b) THEN api_pc
                 ELSE [api_pc EXCEPT ![c] = [st |-> "add", id |-> b]]
    /\ UNCHANGED <<idmap, alloc_log, chanVars, sessVars>>

\* to_vscode, the except branch: self.add(pydevd_id)
ApiToVscodeAdd(c) ==
    /\ api_pc[c].st = "add"
    /\ idmap.next_id <= MaxIds
    /\ idmap' = add(idmap, api_pc[c].id).m
    /\ alloc_log' = Append(alloc_log, add(idmap, api_pc[c].id).id)
    /\ api_pc' = [api_pc EXCEPT ![c] = ApiIdle]
    /\ UNCHANGED <<chanVars, sessVars>>

OptionalOf(S) == {{}} \cup {{x} : x \in S}

(***************************************************************************)
(* PydevdSocket through its methods: two threads call pydevd_notify and    *)
(* pydevd_request, the thread of pydevd calls send.                        *)
(***************************************************************************)
ChanCallers == {"server", "loop"}

NoPacket == [cmd_id |-> "", seq |-> 0, args |-> <<>>]

ChanIdle == [st |-> "idle", pkt |-> NoPacket]

BackendIdle == [st |-> "idle", pkt |-> NoPacket, fut |-> {}, locals |-> <<>>]

\* pydevd_notify and pydevd_request, their first line: make_packet
ChanMakePacket(c, kind, cmd_id, args) ==
    /\ chan_pc[c].st = "idle"
    /\ seq < InitialSeq + MaxPackets
    /\ LET r == make_packet(seq, cmd_id, args)
       IN  /\ seq' = r.next
           /\ seq_log' = Append(seq_log, r.seq)
           /\ chan_pc' = [chan_pc EXCEPT ![c] = [st |-> kind, pkt |-> r.pkt]]
    /\ UNCHANGED <<requests, pipe, backend_pc, delivered, loop_queue,
                   dispatched, idmapVars, sessVars>>

\* pydevd_notify, os.write
ChanNotifyWrite(c) ==
    /\ chan_pc[c].st = "notify"
    /\ pipe' = Append(pipe, chan_pc[c].pkt)
    /\ chan_pc' = [chan_pc EXCEPT ![c] = ChanIdle]
    /\ UNCHANGED <<seq, requests, seq_log, backend_pc, delivered, loop_queue,
                   dispatched, idmapVars, sessVars>>

\* A slip in pydevd_request: the packet is written, the future is not
\* in the table
ChanRequestWrite_unregistered(c) ==
    /\ chan_pc[c].st = "request"
    /\ pipe' = Append(pipe, chan_pc[c].pkt)
    /\ chan_pc' = [chan_pc EXCEPT ![c] = ChanIdle]
    /\ UNCHANGED <<seq, requests, seq_log, backend_pc, delivered, loop_queue,
                   dispatched, idmapVars, sessVars>>

\* pydevd_request, under the lock: register the future, then os.write
ChanRequestWrite(c) ==
    /\ chan_pc[c].st = "request"
    /\ requests' = DictSet(requests, chan_pc[c].pkt.seq,
                           [loop |-> "loop", fut |-> chan_pc[c].pkt.seq])
    /\ pipe' = Append(pipe, chan_pc[c].pkt)
    /\ chan_pc' = [chan_pc EXCEPT ![c] = ChanIdle]
    /\ UNCHANGED <<seq, seq_log, backend_pc, delivered, loop_queue,
                   dispatched, idmapVars, sessVars>>

\* send, up to the end of the locked block: parse the packet, pop the
\* pending request
SendPop(pkt) ==
    /\ backend_pc.st = "idle"
    /\ LET r == requests_pop(requests, pkt.seq)
       IN  /\ requests' = r.requests
           /\ backend_pc' = [st |-> "popped", pkt |-> pkt, fut |-> r.fut,
                           locals |-> <<>>]
    /\ delivered' = Append(delivered,
                           [pkt |-> pkt, pending |-> pkt.seq \in DOMAIN requests])
    /\ UNCHANGED <<seq, pipe, seq_log, chan_pc, loop_queue, dispatched,
                   idmapVars, sessVars>>

\* send, else branch: loop.call_soon_threadsafe(fut.set_result, ...)
SendResolve ==
    /\ backend_pc.st = "popped"
    /\ backend_pc.fut # {}
    /\ loop_queue' = Append(loop_queue,
                            [fut    |-> CHOOSE f \in backend_pc.fut : TRUE,
                             result |-> backend_pc.pkt])
    /\ backend_pc' = BackendIdle
    /\ UNCHANGED <<seq, requests, pipe, seq_log, chan_pc, delivered,
                   dispatched, idmapVars, sessVars>>

\* send, if branch: self.event_handler(cmd_id, seq, args), the handler
\* left open
SendEvent ==
    /\ backend_pc.st = "popped"
    /\ backend_pc.fut = {}
    /\ dispatched' = Append(dispatched, backend_pc.pkt)
    /\ backend_pc' = BackendIdle
    /\ UNCHANGED <<seq, requests, pipe, seq_log, chan_pc, delivered,
                   loop_queue, idmapVars, sessVars>>

\* what pydevd may send: a reply to any packet, made or not yet made, or a
\* packet with a sequence number of its own
ChanIncoming ==
    [cmd_id : {"CMD_VERSION"},
     seq    : (InitialSeq - 1)..(InitialSeq + MaxPackets - 1),
     args   : {<<>>}]

(***************************************************************************)
(* class VSCodeMessageProcessor.                                           *)
(*                                                                         *)
(* Three threads run its code.  "server" reads VSCode's requests one at a  *)
(* time and runs each handler up to its first yield, or to its end when    *)
(* it has none.  "loop" is the EventLoop: it runs what follows a yield     *)
(* once the reply has been handed to it.  "pydevd" is the thread of pydevd *)
(* that calls PydevdSocket.send, and with it the handlers of pydevd's      *)
(* events.                                                                 *)
(***************************************************************************)
NoRequest == [seq |-> 0, command |-> "", arguments |-> <<>>]

ServerIdle == [st |-> "idle", request |-> NoRequest, locals |-> <<>>]

LoopIdle ==
    [st |-> "idle", request |-> NoRequest, todo |-> <<>>, out |-> <<>>,
     locals |-> <<>>]

\* the socket as a handler sees it
Chan == [seq |-> seq, pipe |-> pipe, seq_log |-> seq_log]

ChanBecomes(ch) ==
    /\ seq' = ch.seq
    /\ pipe' = ch.pipe
    /\ seq_log' = ch.seq_log

\* VSCodeMessageProcessor.pydevd_notify: make_packet, then os.write.  All
\* calls are made by the server thread, so the two are one step.
pydevd_notify(ch, cmd_id, args) ==
    LET r == make_packet(ch.seq, cmd_id, args)
    IN  [seq     |-> r.next,
         pipe    |-> Append(ch.pipe, r.pkt),
         seq_log |-> Append(ch.seq_log, r.seq)]

\* ipcjson's send_response and send_event
Response(request, body, by) ==
    [type |-> "response", request |-> request, body |-> body, by |-> by]

Event(name, body, by) ==
    [type |-> "event", event |-> name, body |-> body, by |-> by]

\* a dictionary's items as a list, here in the order of the ids
RECURSIVE ItemList(_)
ItemList(ps) ==
    IF ps = {} THEN <<>>
    ELSE LET first == CHOOSE x \in ps : \A y \in ps : x[2] <= y[2]
         IN  <<first>> \o ItemList(ps \ {first})

\* A slip in on_setBreakpoints: the loop over the old breakpoints is left
\* out.
remove_breaks_none(st, path, old) == st

\* on_setBreakpoints, lines 416-418: for every pair of bp_map.pairs(),
\* notify CMD_REMOVE_BREAK with the path of the request and remove the pair
RECURSIVE remove_breaks(_, _, _)
remove_breaks(st, path, old) ==
    IF old = <<>> THEN st
    ELSE LET pyd_bpid == Head(old)[1]
             vsc_bpid == Head(old)[2]
         IN  remove_breaks(
               [st EXCEPT
                  !.ch = pydevd_notify(st.ch, "CMD_REMOVE_BREAK",
                                       <<"python-line", path, vsc_bpid>>),
                  !.bp = remove(st.bp, {pyd_bpid}, {vsc_bpid}).m],
               path, Tail(old))

\* on_setBreakpoints, lines 420-425: for every requested breakpoint, add
\* (path, vsc_bpid), notify CMD_SET_BREAK, list it as verified
RECURSIVE set_breaks(_, _, _)
set_breaks(st, path, src_bps) ==
    IF src_bps = <<>> THEN st
    ELSE LET line     == Head(src_bps).line
             vsc_bpid == add(st.bp, <<path, st.bp.next_id>>).id
         IN  set_breaks(
               [st EXCEPT
                  !.bp  = add(st.bp, <<path, st.bp.next_id>>).m,
                  !.ch  = pydevd_notify(st.ch, "CMD_SET_BREAK",
                            <<vsc_bpid, "python-line", path, line,
                              "None", "None", "None">>),
                  !.bps = Append(st.bps, [id |-> vsc_bpid, verified |-> TRUE,
                                          line |-> line])],
               path, Tail(src_bps))

\* on_setBreakpoints: bp_map is touched by this handler alone and the
\* server thread runs one handler at a time, so the handler is one step.
on_setBreakpoints(request) ==
    LET path    == request.arguments.source.path
        src_bps == request.arguments.breakpoints
        st0     == [bp |-> bp_map, ch |-> Chan, bps |-> <<>>]
        st1     == remove_breaks(st0, path, ItemList(pairs(bp_map)))
        st2     == set_breaks(st1, path, src_bps)
    IN  /\ server_pc.st = "idle"
        /\ request.seq = nreq + 1
        /\ nreq' = nreq + 1
        /\ bp_map' = st2.bp
        /\ ChanBecomes(st2.ch)
        /\ sent' = Append(sent, Response(request, [breakpoints |-> st2.bps],
                                         "server"))
        /\ UNCHANGED <<thread_map, frame_map, var_map, cacheVars, procVars,
                       diag, requests, chan_pc, backend_pc, delivered,
                       loop_queue, dispatched, idmapVars>>

Paths == {"p.py", "q.py"}

Lines == {10, 20}

SeqsUpTo(S, n) == UNION {[1..k -> S] : k \in 0..n}

SetBreakpointsRequests ==
    [seq       : {nreq + 1},
     command   : {"setBreakpoints"},
     arguments : [source      : [path : Paths],
                  breakpoints : SeqsUpTo([line : Lines], MaxBps)]]

(***************************************************************************)
(* Threads: on_threads, on_pause, on_continue, on_next, on_stepIn,         *)
(* on_stepOut, on_pydevd_thread_create, on_pydevd_thread_kill.             *)
(***************************************************************************)
\* the server thread takes the next request
Dispatch(request) ==
    /\ server_pc.st = "idle"
    /\ request.seq = nreq + 1
    /\ nreq' = nreq + 1

\* async_handler, done: the exception a handler raised is printed, and
\* nothing is sent
Traceback(request, error, by) ==
    [request |-> request, error |-> error, by |-> by]

\* VSCodeMessageProcessor.pydevd_request on the server thread: make_packet,
\* then register the future and write under the lock
pydevd_request(ch, reqs, cmd_id, args) ==
    LET r == make_packet(ch.seq, cmd_id, args)
    IN  [ch       |-> [seq     |-> r.next,
                       pipe    |-> Append(ch.pipe, r.pkt),
                       seq_log |-> Append(ch.seq_log, r.seq)],
         requests |-> DictSet(reqs, r.seq, [loop |-> "loop", fut |-> r.seq]),
         fut      |-> r.seq]

\* the handler of request yields the future of a pydevd_request
YieldRequest(request, cmd_id, args, locals) ==
    LET r == pydevd_request(Chan, requests, cmd_id, args)
    IN  /\ ChanBecomes(r.ch)
        /\ requests' = r.requests
        /\ waiting' = DictSet(waiting, r.fut,
                              [request |-> request, locals |-> locals])

\* on_threads up to its yield
on_threads(request) ==
    /\ Dispatch(request)
    /\ YieldRequest(request, "CMD_LIST_THREADS", <<>>, <<>>)
    /\ UNCHANGED <<mapVars, cacheVars, server_pc, loop_pc, sent, diag,
                   chan_pc, backend_pc, delivered, loop_queue, dispatched,
                   idmapVars>>

\* the keys of _pydevd_to_vscode as a list
KeyList(m) ==
    LET items == ItemList(pairs(m))
    IN  [k \in 1..Len(items) |-> items[k][1]]

\* A slip in on_pause: the test for the sentinel is left out, every known
\* thread is suspended.
pause_targets_all(m, vsc_tid) == KeyList(m)

\* on_pause, lines 377-382: the threads to suspend
pause_targets(m, vsc_tid) ==
    IF vsc_tid = 0 THEN KeyList(m) ELSE <<to_pydevd(m, vsc_tid)>>

RECURSIVE notify_each(_, _, _)
notify_each(ch, cmd_id, pyd_tids) ==
    IF pyd_tids = <<>> THEN ch
    ELSE notify_each(pydevd_notify(ch, cmd_id, Head(pyd_tids)), cmd_id,
                     Tail(pyd_tids))

\* on_pause: one step, the snapshot of thread_map is all it reads
on_pause(request) ==
    LET vsc_tid == request.arguments.threadId
    IN  /\ Dispatch(request)
        /\ IF vsc_tid # 0 /\ to_pydevd_raises(thread_map, vsc_tid)
           THEN /\ diag' = Append(diag, Traceback(request, "KeyError", "server"))
                /\ UNCHANGED <<seq, pipe, seq_log, sent>>
           ELSE /\ ChanBecomes(notify_each(Chan, "CMD_THREAD_SUSPEND",
                                           pause_targets(thread_map, vsc_tid)))
                /\ sent' = Append(sent, Response(request, <<>>, "server"))
                /\ UNCHANGED diag
        /\ UNCHANGED <<mapVars, cacheVars, procVars, requests, chan_pc,
                       backend_pc, delivered, loop_queue, dispatched,
                       idmapVars>>

\* A slip in the stepping handlers: the response is sent first, before the
\* thread is mapped.
StepHandler_responds_first(request, cmd_id) ==
    LET vsc_tid == request.arguments.threadId
    IN  /\ Dispatch(request)
        /\ sent' = Append(sent, Response(request, <<>>, "server"))
        /\ IF to_pydevd_raises(thread_map, vsc_tid)
           THEN /\ diag' = Append(diag, Traceback(request, "KeyError", "server"))
                /\ UNCHANGED <<seq, pipe, seq_log>>
           ELSE /\ ChanBecomes(pydevd_notify(Chan, cmd_id,
                                             to_pydevd(thread_map, vsc_tid)))
                /\ UNCHANGED diag
        /\ UNCHANGED <<mapVars, cacheVars, procVars, requests, chan_pc,
                       backend_pc, delivered, loop_queue, dispatched,
                       idmapVars>>

\* on_continue, on_next, on_stepIn, on_stepOut: map the thread, notify,
\* respond
StepHandler(request, cmd_id) ==
    LET vsc_tid == request.arguments.threadId
    IN  /\ Dispatch(request)
        /\ IF to_pydevd_raises(thread_map, vsc_tid)
           THEN /\ diag' = Append(diag, Traceback(request, "KeyError", "server"))
                /\ UNCHANGED <<seq, pipe, seq_log, sent>>
           ELSE /\ ChanBecomes(pydevd_notify(Chan, cmd_id,
                                             to_pydevd(thread_map, vsc_tid)))
                /\ sent' = Append(sent, Response(request, <<>>, "server"))
                /\ UNCHANGED diag
        /\ UNCHANGED <<mapVars, cacheVars, procVars, requests, chan_pc,
                       backend_pc, delivered, loop_queue, dispatched,
                       idmapVars>>

on_continue(request) == StepHandler(request, "CMD_THREAD_RUN")

on_next(request) == StepHandler(request, "CMD_STEP_OVER")

on_stepIn(request) == StepHandler(request, "CMD_STEP_INTO")

on_stepOut(request) == StepHandler(request, "CMD_STEP_RETURN")

\* EventLoop.run_forever: the next call of the queue is fut.set_result; the
\* handler that waits for fut goes on with the reply
LoopResume(command) ==
    /\ loop_pc.st = "idle"
    /\ loop_queue # <<>>
    /\ Head(loop_queue).fut \in DOMAIN waiting
    /\ waiting[Head(loop_queue).fut].request.command = command
    /\ loop_queue' = Tail(loop_queue)
    /\ waiting' = DictDel(waiting, Head(loop_queue).fut)

\* name.startswith('pydevd.'); a name is the list of its parts, None the
\* empty list
IsInternal(name) == name # <<>> /\ name[1] = "pydevd."

\* on_threads, lines 299-300
list_thread(threads, tid, name) ==
    IF IsInternal(name) THEN threads
    ELSE Append(threads, [id |-> tid, name |-> name])

\* on_threads after its yield, lines 285-292: the reply is parsed
on_threads_resume ==
    /\ LoopResume("threads")
    /\ loop_pc' = [st      |-> "threads",
                   request |-> waiting[Head(loop_queue).fut].request,
                   todo    |-> Head(loop_queue).result.args,
                   out     |-> <<>>,
                   locals  |-> <<>>]
    /\ UNCHANGED <<mapVars, cacheVars, server_pc, sent, nreq, diag, seq,
                   requests, pipe, seq_log, chan_pc, backend_pc, delivered,
                   dispatched, idmapVars>>

\* on_threads, line 294: to_vscode, the read outside the lock
on_threads_to_vscode ==
    /\ loop_pc.st = "threads"
    /\ loop_pc.todo # <<>>
    /\ LET xthread == Head(loop_pc.todo)
       IN  loop_pc' =
             IF to_vscode_hit(thread_map, xthread.id)
             THEN [loop_pc EXCEPT
                     !.todo = Tail(loop_pc.todo),
                     !.out  = list_thread(loop_pc.out,
                                          thread_map.p2v[xthread.id],
                                          xthread.name)]
             ELSE [loop_pc EXCEPT !.st = "threads_add"]
    /\ UNCHANGED <<mapVars, cacheVars, server_pc, waiting, sent, nreq, diag,
                   chanVars, idmapVars>>

\* on_threads, line 294: to_vscode, the add after a miss
on_threads_add ==
    /\ loop_pc.st = "threads_add"
    /\ LET xthread == Head(loop_pc.todo)
           r       == add(thread_map, xthread.id)
       IN  /\ thread_map' = r.m
           /\ loop_pc' = [loop_pc EXCEPT
                            !.st   = "threads",
                            !.todo = Tail(loop_pc.todo),
                            !.out  = list_thread(loop_pc.out, r.id,
                                                 xthread.name)]
    /\ UNCHANGED <<frame_map, var_map, bp_map, cacheVars, server_pc, waiting,
                   sent, nreq, diag, chanVars, idmapVars>>

\* on_threads, line 302
on_threads_respond ==
    /\ loop_pc.st = "threads"
    /\ loop_pc.todo = <<>>
    /\ sent' = Append(sent, Response(loop_pc.request,
                                     [threads |-> loop_pc.out], "loop"))
    /\ loop_pc' = LoopIdle
    /\ UNCHANGED <<mapVars, cacheVars, server_pc, waiting, nreq, diag,
                   chanVars, idmapVars>>

\* on_pydevd_event: send found no future and calls the handler of cmd_id
EventIs(cmd_id) ==
    /\ backend_pc.st = "popped"
    /\ backend_pc.fut = {}
    /\ backend_pc.pkt.cmd_id = cmd_id

\* on_pydevd_thread_create, line 453: to_vscode, the read outside the
\* lock; after a hit the event is sent
on_pydevd_thread_create ==
    /\ EventIs("CMD_THREAD_CREATE")
    /\ LET pyd_tid == backend_pc.pkt.args.id
       IN  IF to_vscode_hit(thread_map, pyd_tid)
           THEN /\ sent' = Append(sent,
                          Event("thread", [reason   |-> "started",
                                           threadId |-> thread_map.p2v[pyd_tid]],
                                "pydevd"))
                /\ backend_pc' = BackendIdle
           ELSE /\ backend_pc' = [backend_pc EXCEPT !.st = "create_add"]
                /\ UNCHANGED sent
    /\ UNCHANGED <<mapVars, cacheVars, procVars, nreq, diag, seq, requests,
                   pipe, seq_log, chan_pc, delivered, loop_queue, dispatched,
                   idmapVars>>

\* on_pydevd_thread_create, lines 453-454: the add after a miss, the event
on_pydevd_thread_create_add ==
    /\ backend_pc.st = "create_add"
    /\ LET r == add(thread_map, backend_pc.pkt.args.id)
       IN  /\ thread_map' = r.m
           /\ sent' = Append(sent,
                     Event("thread", [reason |-> "started", threadId |-> r.id],
                           "pydevd"))
    /\ backend_pc' = BackendIdle
    /\ UNCHANGED <<frame_map, var_map, bp_map, cacheVars, procVars, nreq,
                   diag, seq, requests, pipe, seq_log, chan_pc, delivered,
                   loop_queue, dispatched, idmapVars>>

\* A slip in on_pydevd_thread_kill: the id an unmapped thread would get
\* next is used, the thread is not ignored.
to_vscode_next(m, pydevd_id) ==
    IF to_vscode_hit(m, pydevd_id) THEN {m.p2v[pydevd_id]} ELSE {m.next_id}

\* to_vscode(pydevd_id, autogen=False): the id, or none when KeyError is
\* raised
to_vscode_noautogen(m, pydevd_id) ==
    IF to_vscode_hit(m, pydevd_id) THEN {m.p2v[pydevd_id]} ELSE {}

\* on_pydevd_thread_kill: to_vscode with autogen=False
on_pydevd_thread_kill ==
    /\ EventIs("CMD_THREAD_KILL")
    /\ LET tids == to_vscode_noautogen(thread_map, backend_pc.pkt.args)
       IN  IF tids # {}
           THEN sent' = Append(sent,
                          Event("thread",
                                [reason   |-> "exited",
                                 threadId |-> CHOOSE tid \in tids : TRUE],
                                "pydevd"))
           ELSE UNCHANGED sent
    /\ backend_pc' = BackendIdle
    /\ UNCHANGED <<mapVars, cacheVars, procVars, nreq, diag, seq, requests,
                   pipe, seq_log, chan_pc, delivered, loop_queue, dispatched,
                   idmapVars>>

\* the threads of the debugged program, and names pydevd gives threads
Threads == {"t1", "t2"}

ThreadNames == {<<"MainThread">>, <<"pydevd.", "Writer">>}

\* what pydevd may answer to CMD_LIST_THREADS
ThreadListings ==
    {<<[id |-> t, name |-> <<"MainThread">>]>> : t \in Threads}
    \cup {<<[id |-> "t1", name |-> <<"MainThread">>], [id |-> "t2", name |-> n]>> :
            n \in ThreadNames}

\* the requests written to the pipe that wait for their reply
Unanswered(cmd_id) ==
    {pipe[k].seq : k \in {j \in 1..Len(pipe) :
                            /\ pipe[j].cmd_id = cmd_id
                            /\ pipe[j].seq \in DOMAIN requests}}

\* what pydevd may send about threads: a reply to a written
\* CMD_LIST_THREADS, or an event with a sequence number of its own
ThreadsIncoming ==
    {[cmd_id |-> "CMD_RETURN", seq |-> s, args |-> l] :
        s \in Unanswered("CMD_LIST_THREADS"), l \in ThreadListings}
    \cup {[cmd_id |-> "CMD_THREAD_CREATE", seq |-> 1, args |-> [id |-> t]] :
            t \in Threads}
    \cup {[cmd_id |-> "CMD_THREAD_KILL", seq |-> 1, args |-> t] : t \in Threads}

NoArguments == <<>>

RequestsOf(command, arguments) ==
    [seq : {nreq + 1}, command : {command}, arguments : arguments]

ThreadIdArguments == [threadId : 0..2]

(***************************************************************************)
(* Frames and variables: on_stackTrace, on_scopes, on_variables,           *)
(* on_exceptionInfo, on_pydevd_thread_suspend, on_pydevd_thread_run,       *)
(* on_pydevd_send_curr_exception_trace.                                    *)
(*                                                                         *)
(* A backend frame id is <<thread, frame>>, a backend variable id is       *)
(* <<thread, frame, "FRAME">> followed by the names on the way to it.      *)
(***************************************************************************)
\* to_vscode(pydevd_id, autogen=True) where no other thread adds the same
\* key: the lookup and the add after a miss are one step
to_vscode_autogen(m, pydevd_id) ==
    IF to_vscode_hit(m, pydevd_id)
    THEN [m |-> m, id |-> m.p2v[pydevd_id]]
    ELSE add(m, pydevd_id)

\* A slip in on_stackTrace: startFrame and levels are not looked at.
page_of_all(xframes, startFrame, levels) == xframes

\* on_stackTrace, lines 319-325: the frames the loop reaches, startFrame
\* frames skipped, at most levels taken
RECURSIVE page_of(_, _, _)
page_of(xframes, startFrame, levels) ==
    IF xframes = <<>> THEN <<>>
    ELSE IF startFrame > 0
         THEN page_of(Tail(xframes), startFrame - 1, levels)
         ELSE IF levels <= 0 THEN <<>>
              ELSE <<Head(xframes)>> \o page_of(Tail(xframes), 0, levels - 1)

\* on_stackTrace, lines 306-316: map the thread, read its cached frames.
\* An unmapped thread or a thread without cached frames raises KeyError.
\* frames is the list read from the cache, xframes the part of it the loop
\* has yet to go through.
on_stackTrace(request) ==
    LET vsc_tid    == request.arguments.threadId
        startFrame == request.arguments.startFrame
        levels     == request.arguments.levels
    IN  /\ Dispatch(request)
        /\ IF \/ to_pydevd_raises(thread_map, vsc_tid)
              \/ to_pydevd(thread_map, vsc_tid) \notin DOMAIN stack_traces
           THEN /\ diag' = Append(diag, Traceback(request, "KeyError", "server"))
                /\ UNCHANGED server_pc
           ELSE LET tid         == to_pydevd(thread_map, vsc_tid)
                    xframes     == stack_traces[tid]
                    totalFrames == Len(xframes)
                IN  /\ server_pc' =
                         [st      |-> "stackTrace",
                          request |-> request,
                          locals  |->
                            [tid         |-> tid,
                             totalFrames |-> totalFrames,
                             frames      |-> xframes,
                             xframes     |-> page_of(xframes, startFrame,
                                               IF levels = 0 THEN totalFrames
                                               ELSE levels),
                             stackFrames |-> <<>>]]
                    /\ UNCHANGED diag
        /\ UNCHANGED <<mapVars, cacheVars, loop_pc, waiting, sent, chanVars,
                       idmapVars>>

\* on_stackTrace, lines 326-330: one frame of the page gets its id
on_stackTrace_frame ==
    /\ server_pc.st = "stackTrace"
    /\ server_pc.locals.xframes # <<>>
    /\ LET l      == server_pc.locals
           xframe == Head(l.xframes)
           r      == to_vscode_autogen(frame_map, <<l.tid, xframe.id>>)
       IN  /\ frame_map' = r.m
           /\ server_pc' =
                [server_pc EXCEPT
                   !.locals.xframes = Tail(l.xframes),
                   !.locals.stackFrames =
                      Append(l.stackFrames,
                             [id |-> r.id, name |-> xframe.name,
                              line |-> xframe.line, column |-> 0])]
    /\ UNCHANGED <<thread_map, var_map, bp_map, cacheVars, loop_pc, waiting,
                   sent, nreq, diag, chanVars, idmapVars>>

\* on_stackTrace, line 332
on_stackTrace_respond ==
    /\ server_pc.st = "stackTrace"
    /\ server_pc.locals.xframes = <<>>
    /\ sent' = Append(sent,
                 Response(server_pc.request,
                          [stackFrames |-> server_pc.locals.stackFrames,
                           totalFrames |-> server_pc.locals.totalFrames],
                          "server"))
    /\ server_pc' = ServerIdle
    /\ UNCHANGED <<mapVars, cacheVars, loop_pc, waiting, nreq, diag, chanVars,
                   idmapVars>>

\* on_scopes, lines 336-338: the frame of the request; an unmapped frame
\* raises KeyError
on_scopes(request) ==
    LET vsc_fid == request.arguments.frameId
    IN  /\ Dispatch(request)
        /\ IF to_pydevd_raises(frame_map, vsc_fid)
           THEN /\ diag' = Append(diag, Traceback(request, "KeyError", "server"))
                /\ UNCHANGED server_pc
           ELSE /\ server_pc' =
                     [st      |-> "scopes",
                      request |-> request,
                      locals  |->
                        [pyd_var |-> to_pydevd(frame_map, vsc_fid)
                                       \o <<"FRAME">>]]
                /\ UNCHANGED diag
        /\ UNCHANGED <<mapVars, cacheVars, loop_pc, waiting, sent, chanVars,
                       idmapVars>>

\* on_scopes, lines 339-341
on_scopes_respond ==
    /\ server_pc.st = "scopes"
    /\ LET r == to_vscode_autogen(var_map, server_pc.locals.pyd_var)
       IN  /\ var_map' = r.m
           /\ sent' = Append(sent,
                        Response(server_pc.request,
                                 [scopes |-> <<[name |-> "Locals",
                                                expensive |-> FALSE,
                                                variablesReference |-> r.id]>>],
                                 "server"))
    /\ server_pc' = ServerIdle
    /\ UNCHANGED <<thread_map, frame_map, bp_map, cacheVars, loop_pc, waiting,
                   nreq, diag, chanVars, idmapVars>>

\* A slip in on_variables: the length of the path is not looked at.
variables_cmd_frame(pyd_var) == "CMD_GET_FRAME"

\* on_variables, lines 348-351
variables_cmd(pyd_var) ==
    IF Len(pyd_var) = 3 THEN "CMD_GET_FRAME" ELSE "CMD_GET_VARIABLE"

\* on_variables up to its yield; an unmapped reference raises KeyError
on_variables(request) ==
    LET vsc_var == request.arguments.variablesReference
    IN  /\ Dispatch(request)
        /\ IF to_pydevd_raises(var_map, vsc_var)
           THEN /\ diag' = Append(diag, Traceback(request, "KeyError", "server"))
                /\ UNCHANGED <<seq, pipe, seq_log, requests, waiting>>
           ELSE LET pyd_var == to_pydevd(var_map, vsc_var)
                IN  /\ YieldRequest(request, variables_cmd(pyd_var), pyd_var,
                                    [pyd_var |-> pyd_var])
                    /\ UNCHANGED diag
        /\ UNCHANGED <<mapVars, cacheVars, server_pc, loop_pc, sent, chan_pc,
                       backend_pc, delivered, loop_queue, dispatched,
                       idmapVars>>

\* on_variables after its yield, lines 353-358: the reply is parsed
on_variables_resume ==
    /\ LoopResume("variables")
    /\ loop_pc' = [st      |-> "variables",
                   request |-> waiting[Head(loop_queue).fut].request,
                   todo    |-> Head(loop_queue).result.args,
                   out     |-> <<>>,
                   locals  |-> waiting[Head(loop_queue).fut].locals]
    /\ UNCHANGED <<mapVars, cacheVars, server_pc, sent, nreq, diag, seq,
                   requests, pipe, seq_log, chan_pc, backend_pc, delivered,
                   dispatched, idmapVars>>

\* bool(xvar['isContainer']): the attribute is a string, None the empty one
is_container(xvar) == xvar.isContainer # ""

\* on_variables, lines 361-370: one variable of the reply
on_variables_var ==
    /\ loop_pc.st = "variables"
    /\ loop_pc.todo # <<>>
    /\ LET xvar      == Head(loop_pc.todo)
           pyd_child == loop_pc.locals.pyd_var \o <<xvar.name>>
           r         == to_vscode_autogen(var_map, pyd_child)
       IN  IF is_container(xvar)
           THEN /\ var_map' = r.m
                /\ loop_pc' = [loop_pc EXCEPT
                                 !.todo = Tail(loop_pc.todo),
                                 !.out  = Append(loop_pc.out,
                                            [name |-> xvar.name,
                                             variablesReference |-> {r.id}])]
           ELSE /\ UNCHANGED var_map
                /\ loop_pc' = [loop_pc EXCEPT
                                 !.todo = Tail(loop_pc.todo),
                                 !.out  = Append(loop_pc.out,
                                            [name |-> xvar.name,
                                             variablesReference |-> {}])]
    /\ UNCHANGED <<thread_map, frame_map, bp_map, cacheVars, server_pc,
                   waiting, sent, nreq, diag, chanVars, idmapVars>>

\* on_variables, line 372
on_variables_respond ==
    /\ loop_pc.st = "variables"
    /\ loop_pc.todo = <<>>
    /\ sent' = Append(sent, Response(loop_pc.request,
                                     [variables |-> loop_pc.out], "loop"))
    /\ loop_pc' = LoopIdle
    /\ UNCHANGED <<mapVars, cacheVars, server_pc, waiting, nreq, diag,
                   chanVars, idmapVars>>

\* on_exceptionInfo: an unmapped thread or a thread without an active
\* exception raises KeyError
on_exceptionInfo(request) ==
    LET vsc_tid == request.arguments.threadId
    IN  /\ Dispatch(request)
        /\ IF \/ to_pydevd_raises(thread_map, vsc_tid)
              \/ to_pydevd(thread_map, vsc_tid) \notin DOMAIN active_exceptions
           THEN /\ diag' = Append(diag, Traceback(request, "KeyError", "server"))
                /\ UNCHANGED sent
           ELSE LET exc == active_exceptions[to_pydevd(thread_map, vsc_tid)]
                IN  /\ sent' = Append(sent,
                          Response(request,
                                   [exceptionId |-> exc.name,
                                    description |-> exc.description,
                                    breakMode   |-> "unhandled",
                                    details     |->
                                      [typeName |-> exc.name,
                                       message  |-> exc.description]],
                                   "server"))
                    /\ UNCHANGED diag
        /\ UNCHANGED <<mapVars, cacheVars, procVars, chanVars, idmapVars>>

\* on_pydevd_thread_suspend, lines 470-477
stop_reason(reason) ==
    IF reason \in {"CMD_STEP_INTO", "CMD_STEP_OVER", "CMD_STEP_RETURN"}
    THEN "step"
    ELSE IF reason = "CMD_STEP_CAUGHT_EXCEPTION" THEN "exception"
    ELSE IF reason = "CMD_SET_BREAK" THEN "breakpoint"
    ELSE "pause"

\* on_pydevd_thread_suspend, lines 467-480: the frames are cached, then
\* to_vscode reads thread_map outside the lock; after a hit the event is
\* sent
on_pydevd_thread_suspend ==
    /\ EventIs("CMD_THREAD_SUSPEND")
    /\ LET xthread == backend_pc.pkt.args
           reason  == stop_reason(xthread.stop_reason)
       IN  /\ stack_traces' = DictSet(stack_traces, xthread.id, xthread.frame)
           /\ IF to_vscode_hit(thread_map, xthread.id)
              THEN /\ sent' = Append(sent,
                             Event("stopped",
                                   [reason   |-> reason,
                                    threadId |-> thread_map.p2v[xthread.id]],
                                   "pydevd"))
                   /\ backend_pc' = BackendIdle
              ELSE /\ backend_pc' = [backend_pc EXCEPT
                                       !.st = "suspend_add",
                                       !.locals = [reason |-> reason]]
                   /\ UNCHANGED sent
    /\ UNCHANGED <<mapVars, active_exceptions, procVars, nreq, diag, seq,
                   requests, pipe, seq_log, chan_pc, delivered, loop_queue,
                   dispatched, idmapVars>>

\* on_pydevd_thread_suspend, lines 480-481: the add after a miss, the event
on_pydevd_thread_suspend_add ==
    /\ backend_pc.st = "suspend_add"
    /\ LET r == add(thread_map, backend_pc.pkt.args.id)
       IN  /\ thread_map' = r.m
           /\ sent' = Append(sent,
                        Event("stopped",
                              [reason   |-> backend_pc.locals.reason,
                               threadId |-> r.id],
                              "pydevd"))
    /\ backend_pc' = BackendIdle
    /\ UNCHANGED <<frame_map, var_map, bp_map, cacheVars, procVars, nreq,
                   diag, seq, requests, pipe, seq_log, chan_pc, delivered,
                   loop_queue, dispatched, idmapVars>>

\* A slip in on_pydevd_thread_run: the test of the thread is left out.
scoped_to_any(pydevd_id, pyd_tid) == TRUE

\* on_pydevd_thread_run, lines 493 and 497: pyd_fid[0] == pyd_tid
scoped_to(pydevd_id, pyd_tid) == pydevd_id[1] = pyd_tid

\* the pairs of a snapshot the loops of lines 492-498 call remove for
scoped_pairs(m, pyd_tid) ==
    ItemList({p \in pairs(m) : scoped_to(p[1], pyd_tid)})

\* on_pydevd_thread_run, lines 485-486: to_vscode reads thread_map outside
\* the lock
on_pydevd_thread_run ==
    /\ EventIs("CMD_THREAD_RUN")
    /\ LET pyd_tid == backend_pc.pkt.args.pyd_tid
       IN  backend_pc' =
             IF to_vscode_hit(thread_map, pyd_tid)
             THEN [backend_pc EXCEPT
                     !.st = "run_del",
                     !.locals = [vsc_tid |-> thread_map.p2v[pyd_tid]]]
             ELSE [backend_pc EXCEPT !.st = "run_add"]
    /\ UNCHANGED <<mapVars, cacheVars, procVars, sent, nreq, diag, seq,
                   requests, pipe, seq_log, chan_pc, delivered, loop_queue,
                   dispatched, idmapVars>>

\* on_pydevd_thread_run, line 486: the add after a miss
on_pydevd_thread_run_add ==
    /\ backend_pc.st = "run_add"
    /\ LET r == add(thread_map, backend_pc.pkt.args.pyd_tid)
       IN  /\ thread_map' = r.m
           /\ backend_pc' = [backend_pc EXCEPT
                               !.st = "run_del",
                               !.locals = [vsc_tid |-> r.id]]
    /\ UNCHANGED <<frame_map, var_map, bp_map, cacheVars, procVars, sent,
                   nreq, diag, seq, requests, pipe, seq_log, chan_pc,
                   delivered, loop_queue, dispatched, idmapVars>>

\* on_pydevd_thread_run, lines 489-492: del self.stack_traces[pyd_tid],
\* which raises KeyError out of send when the thread has no cached frames,
\* then the snapshot frame_map.pairs().  frames and vars are the pairs of
\* the two snapshots the loops remove, pairs those not yet removed.
on_pydevd_thread_run_del ==
    /\ backend_pc.st = "run_del"
    /\ LET pyd_tid == backend_pc.pkt.args.pyd_tid
       IN  IF pyd_tid \in DOMAIN stack_traces
           THEN /\ stack_traces' = DictDel(stack_traces, pyd_tid)
                /\ backend_pc' =
                     [backend_pc EXCEPT
                        !.st = "run_frames",
                        !.locals =
                           [vsc_tid |-> backend_pc.locals.vsc_tid,
                            frames  |-> scoped_pairs(frame_map, pyd_tid),
                            vars    |-> <<>>,
                            pairs   |-> scoped_pairs(frame_map, pyd_tid)]]
                /\ UNCHANGED diag
           ELSE /\ diag' = Append(diag,
                                  Traceback(NoRequest, "KeyError", "pydevd"))
                /\ backend_pc' = BackendIdle
                /\ UNCHANGED stack_traces
    /\ UNCHANGED <<mapVars, active_exceptions, procVars, sent, nreq, seq,
                   requests, pipe, seq_log, chan_pc, delivered, loop_queue,
                   dispatched, idmapVars>>

\* on_pydevd_thread_run, line 494: frame_map.remove(pyd_fid, vsc_fid)
on_pydevd_thread_run_frame ==
    /\ backend_pc.st = "run_frames"
    /\ backend_pc.locals.pairs # <<>>
    /\ LET pair == Head(backend_pc.locals.pairs)
           r    == remove(frame_map, {pair[1]}, {pair[2]})
       IN  /\ frame_map' = r.m
           /\ IF r.raised
              THEN /\ diag' = Append(diag,
                                Traceback(NoRequest, "KeyError", "pydevd"))
                   /\ backend_pc' = BackendIdle
              ELSE /\ backend_pc' =
                        [backend_pc EXCEPT
                           !.locals.pairs = Tail(backend_pc.locals.pairs)]
                   /\ UNCHANGED diag
    /\ UNCHANGED <<thread_map, var_map, bp_map, cacheVars, procVars, sent,
                   nreq, seq, requests, pipe, seq_log, chan_pc, delivered,
                   loop_queue, dispatched, idmapVars>>

\* on_pydevd_thread_run, line 496: the snapshot var_map.pairs()
on_pydevd_thread_run_vars ==
    /\ backend_pc.st = "run_frames"
    /\ backend_pc.locals.pairs = <<>>
    /\ backend_pc' =
         [backend_pc EXCEPT
            !.st = "run_vars",
            !.locals.vars  = scoped_pairs(var_map, backend_pc.pkt.args.pyd_tid),
            !.locals.pairs = scoped_pairs(var_map, backend_pc.pkt.args.pyd_tid)]
    /\ UNCHANGED <<mapVars, cacheVars, procVars, sent, nreq, diag, seq,
                   requests, pipe, seq_log, chan_pc, delivered, loop_queue,
                   dispatched, idmapVars>>

\* on_pydevd_thread_run, line 498: var_map.remove(pyd_var, vsc_var)
on_pydevd_thread_run_var ==
    /\ backend_pc.st = "run_vars"
    /\ backend_pc.locals.pairs # <<>>
    /\ LET pair == Head(backend_pc.locals.pairs)
           r    == remove(var_map, {pair[1]}, {pair[2]})
       IN  /\ var_map' = r.m
           /\ IF r.raised
              THEN /\ diag' = Append(diag,
                                Traceback(NoRequest, "KeyError", "pydevd"))
                   /\ backend_pc' = BackendIdle
              ELSE /\ backend_pc' =
                        [backend_pc EXCEPT
                           !.locals.pairs = Tail(backend_pc.locals.pairs)]
                   /\ UNCHANGED diag
    /\ UNCHANGED <<thread_map, frame_map, bp_map, cacheVars, procVars, sent,
                   nreq, seq, requests, pipe, seq_log, chan_pc, delivered,
                   loop_queue, dispatched, idmapVars>>

\* on_pydevd_thread_run, line 500
on_pydevd_thread_run_event ==
    /\ backend_pc.st = "run_vars"
    /\ backend_pc.locals.pairs = <<>>
    /\ sent' = Append(sent,
                 Event("continued", [threadId |-> backend_pc.locals.vsc_tid],
                       "pydevd"))
    /\ backend_pc' = BackendIdle
    /\ UNCHANGED <<mapVars, cacheVars, procVars, nreq, diag, seq, requests,
                   pipe, seq_log, chan_pc, delivered, loop_queue, dispatched,
                   idmapVars>>

\* on_pydevd_send_curr_exception_trace
on_pydevd_send_curr_exception_trace ==
    /\ EventIs("CMD_SEND_CURR_EXCEPTION_TRACE")
    /\ LET a == backend_pc.pkt.args
       IN  active_exceptions' =
             DictSet(active_exceptions, a.pyd_tid,
                     [name |-> a.name, description |-> a.description])
    /\ backend_pc' = BackendIdle
    /\ UNCHANGED <<mapVars, stack_traces, procVars, sent, nreq, diag, seq,
                   requests, pipe, seq_log, chan_pc, delivered, loop_queue,
                   dispatched, idmapVars>>

\* on_pydevd_send_curr_exception_trace_proceeded
on_pydevd_send_curr_exception_trace_proceeded ==
    /\ EventIs("CMD_SEND_CURR_EXCEPTION_TRACE_PROCEEDED")
    /\ backend_pc' = BackendIdle
    /\ UNCHANGED <<mapVars, cacheVars, procVars, sent, nreq, diag, seq,
                   requests, pipe, seq_log, chan_pc, delivered, loop_queue,
                   dispatched, idmapVars>>

\* the frames pydevd reports for a suspended thread, innermost first
MainFrame == [id |-> 1, name |-> "main", line |-> 10]

InnerFrame == [id |-> 2, name |-> "f", line |-> 20]

FrameLists == {<<MainFrame>>, <<InnerFrame, MainFrame>>}

StopReasons == {"CMD_SET_BREAK", "CMD_THREAD_SUSPEND"}

\* the CMD_THREAD_SUSPEND packets with one of the given stop reasons
Suspends(reasons) ==
    {[cmd_id |-> "CMD_THREAD_SUSPEND", seq |-> 1,
      args |-> [id |-> t, stop_reason |-> r, frame |-> f]] :
        t \in Threads, r \in reasons, f \in FrameLists}

\* what pydevd may answer to CMD_GET_FRAME and CMD_GET_VARIABLE
VarListings ==
    {<<>>,
     <<[name |-> "n", isContainer |-> ""], [name |-> "x", isContainer |-> "True"]>>}

\* what pydevd may send about frames: a reply to a written CMD_GET_FRAME or
\* CMD_GET_VARIABLE, or an event with a sequence number of its own
FramesIncoming ==
    {[cmd_id |-> "CMD_RETURN", seq |-> s, args |-> l] :
        s \in Unanswered("CMD_GET_FRAME") \cup Unanswered("CMD_GET_VARIABLE"),
        l \in VarListings}
    \cup Suspends({"CMD_SET_BREAK"})
    \cup {[cmd_id |-> "CMD_THREAD_RUN", seq |-> 1,
           args |-> [pyd_tid |-> t, reason |-> "CMD_THREAD_RUN"]] :
            t \in Threads}

\* what pydevd may send about one thread while requests about it fail or
\* not: its suspend event, its exception, or a reply to a written
\* CMD_GET_FRAME
FailuresIncoming ==
    {[cmd_id |-> "CMD_RETURN", seq |-> s, args |-> <<>>] :
        s \in Unanswered("CMD_GET_FRAME")}
    \cup {[cmd_id |-> "CMD_THREAD_SUSPEND", seq |-> 1,
           args |-> [id |-> "t1", stop_reason |-> "CMD_STEP_CAUGHT_EXCEPTION",
                     frame |-> <<MainFrame>>]],
          [cmd_id |-> "CMD_SEND_CURR_EXCEPTION_TRACE", seq |-> 1,
           args |-> [pyd_tid |-> "t1", name |-> "ValueError",
                     description |-> "bad"]],
          [cmd_id |-> "CMD_THREAD_CREATE", seq |-> 1, args |-> [id |-> "t1"]]}

\* what pydevd may send about exceptions
ExceptionsIncoming ==
    {[cmd_id |-> "CMD_SEND_CURR_EXCEPTION_TRACE", seq |-> 1,
      args |-> [pyd_tid |-> t, name |-> "ValueError", description |-> "bad"]] :
        t \in Threads}
    \cup {[cmd_id |-> "CMD_SEND_CURR_EXCEPTION_TRACE_PROCEEDED", seq |-> 1,
           args |-> t] : t \in Threads}
    \cup {[cmd_id |-> "CMD_THREAD_CREATE", seq |-> 1, args |-> [id |-> t]] :
            t \in Threads}

StackTraceArguments == [threadId : 1..2, startFrame : 0..1, levels : 0..2]

\* what pydevd may send about the stack of a thread
StackIncoming ==
    Suspends({"CMD_SET_BREAK"})
    \cup {[cmd_id |-> "CMD_THREAD_RUN", seq |-> 1,
           args |-> [pyd_tid |-> t, reason |-> "CMD_THREAD_RUN"]] :
            t \in Threads}

\* stackTrace for all the frames of a thread
WholeStackArguments == [threadId : 1..2, startFrame : {0}, levels : {0}]

FrameIdArguments == [frameId : 1..2]

VariablesArguments == [variablesReference : 1..2]

\* what pydevd may send while the variables of one stopped thread are
\* looked at: the suspend event of the thread, or a reply to a written
\* CMD_GET_FRAME or CMD_GET_VARIABLE
VariablesIncoming ==
    {[cmd_id |-> "CMD_RETURN", seq |-> s, args |-> l] :
        s \in Unanswered("CMD_GET_FRAME") \cup Unanswered("CMD_GET_VARIABLE"),
        l \in VarListings}
    \cup {[cmd_id |-> "CMD_THREAD_SUSPEND", seq |-> 1,
           args |-> [id |-> "t1", stop_reason |-> "CMD_SET_BREAK",
                     frame |-> <<MainFrame>>]]}

(***************************************************************************)
(* The session: on_initialize, on_configurationDone, on_disconnect,        *)
(* on_attach, on_launch.                                                   *)
(***************************************************************************)
\* on_initialize, lines 246-253: what the response carries
Capabilities ==
    [supportsExceptionInfoRequest     |-> TRUE,
     supportsConfigurationDoneRequest |-> TRUE,
     exceptionBreakpointFilters       |-> <<"raised", "uncaught">>]

\* A slip in on_initialize: the response is sent before the yield, the way
\* on_attach and on_launch send theirs.
on_initialize_eager(request) ==
    /\ Dispatch(request)
    /\ sent' = Append(sent, Response(request, Capabilities, "server"))
    /\ YieldRequest(request, "CMD_VERSION", <<"1.1", "WINDOWS", "ID">>, <<>>)
    /\ UNCHANGED <<mapVars, cacheVars, server_pc, loop_pc, diag, chan_pc,
                   backend_pc, delivered, loop_queue, dispatched, idmapVars>>

\* on_initialize up to its yield, line 245
on_initialize(request) ==
    /\ Dispatch(request)
    /\ YieldRequest(request, "CMD_VERSION", <<"1.1", "WINDOWS", "ID">>, <<>>)
    /\ UNCHANGED <<mapVars, cacheVars, server_pc, loop_pc, sent, diag,
                   chan_pc, backend_pc, delivered, loop_queue, dispatched,
                   idmapVars>>

\* on_initialize after its yield, lines 246-253: the response
on_initialize_resume ==
    /\ LoopResume("initialize")
    /\ sent' = Append(sent, Response(waiting[Head(loop_queue).fut].request,
                                     Capabilities, "loop"))
    /\ loop_pc' = [LoopIdle EXCEPT
                     !.st = "initialize",
                     !.request = waiting[Head(loop_queue).fut].request]
    /\ UNCHANGED <<mapVars, cacheVars, server_pc, nreq, diag, seq, requests,
                   pipe, seq_log, chan_pc, backend_pc, delivered, dispatched,
                   idmapVars>>

\* on_initialize, line 254
on_initialize_event ==
    /\ loop_pc.st = "initialize"
    /\ sent' = Append(sent, Event("initialized", <<>>, "loop"))
    /\ loop_pc' = LoopIdle
    /\ UNCHANGED <<mapVars, cacheVars, server_pc, waiting, nreq, diag,
                   chanVars, idmapVars>>

\* on_configurationDone and on_disconnect: the response, nothing else
RespondOnly(request) ==
    /\ Dispatch(request)
    /\ sent' = Append(sent, Response(request, <<>>, "server"))
    /\ UNCHANGED <<mapVars, cacheVars, procVars, diag, chanVars, idmapVars>>

on_configurationDone(request) == RespondOnly(request)

on_disconnect(request) == RespondOnly(request)

\* on_attach and on_launch up to their yield: the response, then CMD_RUN
StartHandler(request) ==
    /\ Dispatch(request)
    /\ sent' = Append(sent, Response(request, <<>>, "server"))
    /\ YieldRequest(request, "CMD_RUN", <<>>, <<>>)
    /\ UNCHANGED <<mapVars, cacheVars, server_pc, loop_pc, diag, chan_pc,
                   backend_pc, delivered, loop_queue, dispatched, idmapVars>>

on_attach(request) == StartHandler(request)

on_launch(request) == StartHandler(request)

\* on_attach and on_launch after their yield: send_process_event
send_process_event(start_method) ==
    /\ LoopResume(start_method)
    /\ sent' = Append(sent, Event("process",
                                  [isLocalProcess |-> TRUE,
                                   startMethod    |-> start_method],
                                  "loop"))
    /\ UNCHANGED <<mapVars, cacheVars, server_pc, loop_pc, nreq, diag, seq,
                   requests, pipe, seq_log, chan_pc, backend_pc, delivered,
                   dispatched, idmapVars>>

on_attach_resume == send_process_event("attach")

on_launch_resume == send_process_event("launch")

\* what pydevd may send during the start of a session: a reply to a written
\* CMD_VERSION or CMD_RUN, or the start of a thread
SessionIncoming ==
    {[cmd_id |-> "CMD_RETURN", seq |-> s, args |-> <<>>] :
        s \in Unanswered("CMD_VERSION") \cup Unanswered("CMD_RUN")}
    \cup {[cmd_id |-> "CMD_THREAD_CREATE", seq |-> 1, args |-> [id |-> t]] :
            t \in Threads}

Init ==
    /\ idmap = IDMapInit
    /\ alloc_log = <<>>
    /\ api_pc = [c \in APICallers |-> ApiIdle]
    /\ seq = InitialSeq
    /\ requests = EmptyDict
    /\ pipe = <<>>
    /\ seq_log = <<>>
    /\ chan_pc = [c \in ChanCallers |-> ChanIdle]
    /\ backend_pc = BackendIdle
    /\ delivered = <<>>
    /\ loop_queue = <<>>
    /\ dispatched = <<>>
    /\ thread_map = IDMapInit
    /\ frame_map = IDMapInit
    /\ var_map = IDMapInit
    /\ bp_map = IDMapInit
    /\ stack_traces = EmptyDict
    /\ active_exceptions = EmptyDict
    /\ sent = <<>>
    /\ nreq = 0
    /\ diag = <<>>
    /\ server_pc = ServerIdle
    /\ loop_pc = LoopIdle
    /\ waiting = EmptyDict

NextChannel ==
    \/ \E c \in ChanCallers :
          \/ ChanMakePacket(c, "notify", "CMD_THREAD_SUSPEND", <<>>)
          \/ ChanMakePacket(c, "request", "CMD_VERSION", <<>>)
    \/ \E c \in ChanCallers : ChanNotifyWrite(c)
    \/ \E c \in ChanCallers : ChanRequestWrite(c)
    \/ \E pkt \in ChanIncoming :
          Len(delivered) < MaxIncoming /\ SendPop(pkt)
    \/ SendResolve
    \/ SendEvent

SpecChannel == Init /\ [][NextChannel]_vars

NextBreakpoints ==
    \E request \in SetBreakpointsRequests :
       nreq < MaxBpRequests /\ on_setBreakpoints(request)

SpecBreakpoints == Init /\ [][NextBreakpoints]_vars

NextThreads ==
    \/ \E request \in RequestsOf("threads", {NoArguments}) :
          nreq < MaxRequests /\ on_threads(request)
    \/ \E request \in RequestsOf("pause", ThreadIdArguments) :
          nreq < MaxRequests /\ on_pause(request)
    \/ on_threads_resume
    \/ on_threads_to_vscode
    \/ on_threads_add
    \/ on_threads_respond
    \/ \E pkt \in ThreadsIncoming :
          Len(delivered) < MaxThreadPackets /\ SendPop(pkt)
    \/ SendResolve
    \/ on_pydevd_thread_create
    \/ on_pydevd_thread_create_add
    \/ on_pydevd_thread_kill

SpecThreads == Init /\ [][NextThreads]_vars

NextSteps ==
    \/ \E request \in RequestsOf("continue", ThreadIdArguments) :
          nreq < MaxRequests /\ on_continue(request)
    \/ \E request \in RequestsOf("next", ThreadIdArguments) :
          nreq < MaxRequests /\ on_next(request)
    \/ \E request \in RequestsOf("stepIn", ThreadIdArguments) :
          nreq < MaxRequests /\ on_stepIn(request)
    \/ \E request \in RequestsOf("stepOut", ThreadIdArguments) :
          nreq < MaxRequests /\ on_stepOut(request)
    \/ \E pkt \in ThreadsIncoming :
          Len(delivered) < MaxThreadPackets /\ SendPop(pkt)
    \/ on_pydevd_thread_create
    \/ on_pydevd_thread_create_add
    \/ on_pydevd_thread_kill

SpecSteps == Init /\ [][NextSteps]_vars

NextExceptions ==
    \/ \E request \in RequestsOf("exceptionInfo", ThreadIdArguments) :
          nreq < MaxRequests /\ on_exceptionInfo(request)
    \/ \E pkt \in ExceptionsIncoming :
          Len(delivered) < MaxExceptionPackets /\ SendPop(pkt)
    \/ on_pydevd_thread_create
    \/ on_pydevd_thread_create_add
    \/ on_pydevd_send_curr_exception_trace
    \/ on_pydevd_send_curr_exception_trace_proceeded

SpecExceptions == Init /\ [][NextExceptions]_vars

Next ==
    \/ \E request \in RequestsOf("stackTrace", WholeStackArguments) :
          nreq < MaxFrameRequests /\ on_stackTrace(request)
    \/ on_stackTrace_frame
    \/ on_stackTrace_respond
    \/ \E request \in RequestsOf("scopes", FrameIdArguments) :
          nreq < MaxFrameRequests /\ on_scopes(request)
    \/ on_scopes_respond
    \/ \E request \in RequestsOf("variables", VariablesArguments) :
          nreq < MaxFrameRequests /\ on_variables(request)
    \/ on_variables_resume
    \/ on_variables_var
    \/ on_variables_respond
    \/ \E pkt \in FramesIncoming :
          Len(delivered) < MaxFramePackets /\ SendPop(pkt)
    \/ SendResolve
    \/ on_pydevd_thread_suspend
    \/ on_pydevd_thread_suspend_add
    \/ on_pydevd_thread_run
    \/ on_pydevd_thread_run_add
    \/ on_pydevd_thread_run_del
    \/ on_pydevd_thread_run_frame
    \/ on_pydevd_thread_run_vars
    \/ on_pydevd_thread_run_var
    \/ on_pydevd_thread_run_event

Spec == Init /\ [][Next]_vars

NextSession ==
    \/ \E request \in RequestsOf("initialize", {NoArguments}) :
          nreq < MaxSessionRequests /\ on_initialize(request)
    \/ \E request \in RequestsOf("configurationDone", {NoArguments}) :
          nreq < MaxSessionRequests /\ on_configurationDone(request)
    \/ \E request \in RequestsOf("disconnect", {NoArguments}) :
          nreq < MaxSessionRequests /\ on_disconnect(request)
    \/ \E request \in RequestsOf("attach", {NoArguments}) :
          nreq < MaxSessionRequests /\ on_attach(request)
    \/ \E request \in RequestsOf("launch", {NoArguments}) :
          nreq < MaxSessionRequests /\ on_launch(request)
    \/ on_initialize_resume
    \/ on_initialize_event
    \/ on_attach_resume
    \/ on_launch_resume
    \/ \E pkt \in SessionIncoming :
          Len(delivered) < MaxSessionPackets /\ SendPop(pkt)
    \/ SendResolve
    \/ on_pydevd_thread_create
    \/ on_pydevd_thread_create_add

SpecSession == Init /\ [][NextSession]_vars

NextStackTrace ==
    \/ \E request \in RequestsOf("stackTrace", StackTraceArguments) :
          nreq < MaxStackRequests /\ on_stackTrace(request)
    \/ on_stackTrace_frame
    \/ on_stackTrace_respond
    \/ \E pkt \in StackIncoming :
          Len(delivered) < MaxStackPackets /\ SendPop(pkt)
    \/ on_pydevd_thread_suspend
    \/ on_pydevd_thread_suspend_add
    \/ on_pydevd_thread_run
    \/ on_pydevd_thread_run_add
    \/ on_pydevd_thread_run_del
    \/ on_pydevd_thread_run_frame
    \/ on_pydevd_thread_run_vars
    \/ on_pydevd_thread_run_event

SpecStackTrace == Init /\ [][NextStackTrace]_vars

NextVariables ==
    \/ \E request \in RequestsOf("stackTrace",
                                 [threadId : {1}, startFrame : {0}, levels : {0}]) :
          nreq < MaxVarRequests /\ on_stackTrace(request)
    \/ on_stackTrace_frame
    \/ on_stackTrace_respond
    \/ \E request \in RequestsOf("scopes", [frameId : {1}]) :
          nreq < MaxVarRequests /\ on_scopes(request)
    \/ on_scopes_respond
    \/ \E request \in RequestsOf("variables", VariablesArguments) :
          nreq < MaxVarRequests /\ on_variables(request)
    \/ on_variables_resume
    \/ on_variables_var
    \/ on_variables_respond
    \/ \E pkt \in VariablesIncoming :
          Len(delivered) < MaxVarPackets /\ SendPop(pkt)
    \/ SendResolve
    \/ on_pydevd_thread_suspend
    \/ on_pydevd_thread_suspend_add

SpecVariables == Init /\ [][NextVariables]_vars

NextFailures ==
    \/ \E request \in RequestsOf("stackTrace",
                                 [threadId : {1}, startFrame : {0}, levels : {0}]) :
          nreq < MaxFailRequests /\ on_stackTrace(request)
    \/ on_stackTrace_frame
    \/ on_stackTrace_respond
    \/ \E request \in RequestsOf("scopes", [frameId : {1}]) :
          nreq < MaxFailRequests /\ on_scopes(request)
    \/ on_scopes_respond
    \/ \E request \in RequestsOf("variables", [variablesReference : {1}]) :
          nreq < MaxFailRequests /\ on_variables(request)
    \/ on_variables_resume
    \/ on_variables_respond
    \/ \E request \in RequestsOf("exceptionInfo", [threadId : {1}]) :
          nreq < MaxFailRequests /\ on_exceptionInfo(request)
    \/ \E request \in RequestsOf("pause", [threadId : {1}]) :
          nreq < MaxFailRequests /\ on_pause(request)
    \/ \E request \in RequestsOf("continue", [threadId : {1}]) :
          nreq < MaxFailRequests /\ on_continue(request)
    \/ \E pkt \in FailuresIncoming :
          Len(delivered) < MaxFailPackets /\ SendPop(pkt)
    \/ SendResolve
    \/ on_pydevd_thread_create
    \/ on_pydevd_thread_create_add
    \/ on_pydevd_thread_suspend
    \/ on_pydevd_thread_suspend_add
    \/ on_pydevd_send_curr_exception_trace

SpecFailures == Init /\ [][NextFailures]_vars

NextIDMap ==
    \/ \E c \in APICallers, b \in BackendIds : ApiAdd(c, b)
    \/ \E c \in APICallers, ps \in OptionalOf(BackendIds),
          vs \in OptionalOf(1..MaxIds) : ApiRemove(c, ps, vs)
    \/ \E c \in APICallers, b \in BackendIds : ApiToVscode(c, b)
    \/ \E c \in APICallers : ApiToVscodeAdd(c)

SpecIDMap == Init /\ [][NextIDMap]_vars

(***************************************************************************)
(* Claims about IDMap.                                                     *)
(***************************************************************************)
\* C2: after any sequence of add and remove calls, every external id e that
\* is still mapped has to_vscode(to_pydevd(e)) = e, and every backend id b
\* that is still mapped has to_pydevd(to_vscode(b)) = b.
C2_RoundTrip ==
    /\ \A e \in vscode_ids(idmap) : to_vscode(idmap, to_pydevd(idmap, e)) = e
    /\ \A b \in pydevd_ids(idmap) :
          /\ ~to_pydevd_raises(idmap, to_vscode(idmap, b))
          /\ to_pydevd(idmap, to_vscode(idmap, b)) = b

\* C3: the ids one IDMap returns are strictly increasing in the order of
\* the calls that returned them, so none is returned twice.
C3_StrictlyIncreasing ==
    \A i, j \in 1..Len(alloc_log) : i < j => alloc_log[i] < alloc_log[j]

\* C3's case: an id was released and ids were handed out after it, some of
\* them by an autogenerating to_vscode.
C3_Witness ==
    /\ Len(alloc_log) >= 3
    /\ alloc_log[1] \notin vscode_ids(idmap)
    /\ \E c \in APICallers : api_pc[c].st = "add"

(***************************************************************************)
(* Claims about PydevdSocket.                                              *)
(***************************************************************************)
\* C4: the sequence numbers make_packet returns start at 1000000000 and
\* are strictly increasing in call order, whichever threads call notify
\* and request; no two packets, written or held, carry the same number.
C4_SeqIncreasing ==
    /\ seq_log # <<>> => seq_log[1] = 1000000000
    /\ \A i, j \in 1..Len(seq_log) : i < j => seq_log[i] < seq_log[j]
    /\ \A i, j \in 1..Len(pipe) : i # j => pipe[i].seq # pipe[j].seq
    /\ \A c \in ChanCallers : chan_pc[c].st # "idle" =>
          /\ \A i \in 1..Len(pipe) : pipe[i].seq # chan_pc[c].pkt.seq
          /\ \A d \in ChanCallers \ {c} :
                chan_pc[d].st # "idle" => chan_pc[d].pkt.seq # chan_pc[c].pkt.seq

\* C4's case: a notify and a request are under way in two threads at once,
\* each holding the packet it made.
C4_Witness ==
    /\ chan_pc["server"].st = "notify"
    /\ chan_pc["loop"].st = "request"
    /\ Len(seq_log) = 2

\* the packets send has dealt with completely
SendDone ==
    SubSeq(delivered, 1,
           IF backend_pc.st = "idle" THEN Len(delivered) ELSE Len(delivered) - 1)

WasPending(d) == d.pending

WasNotPending(d) == ~d.pending

\* C5: a packet whose sequence number is pending removes the entry and
\* resolves the future registered under that number, once, with
\* (cmd_id, seq, args); a packet whose number is not pending, a second
\* packet with a consumed number included, resolves nothing and goes to
\* event_handler.
C5_Correlation ==
    /\ LET hits == SelectSeq(SendDone, WasPending)
       IN  loop_queue = [k \in 1..Len(hits) |->
                           [fut |-> hits[k].pkt.seq, result |-> hits[k].pkt]]
    /\ LET misses == SelectSeq(SendDone, WasNotPending)
       IN  dispatched = [k \in 1..Len(misses) |-> misses[k].pkt]
    /\ \A k \in 1..Len(delivered) :
          delivered[k].pending => delivered[k].pkt.seq \notin DOMAIN requests
    /\ \A i, j \in 1..Len(loop_queue) :
          i # j => loop_queue[i].fut # loop_queue[j].fut

\* C5's case: two requests are answered out of order, and a second packet
\* arrives for a number already consumed.
C5_Witness ==
    /\ backend_pc.st = "idle"
    /\ Len(delivered) = 3
    /\ delivered[1].pending /\ delivered[2].pending /\ ~delivered[3].pending
    /\ delivered[1].pkt.seq > delivered[2].pkt.seq
    /\ delivered[3].pkt.seq = delivered[1].pkt.seq

(***************************************************************************)
(* Claims about on_setBreakpoints.                                         *)
(***************************************************************************)
IsSetBreakpoints(m) ==
    m.type = "response" /\ m.request.command = "setBreakpoints"

PathOf(m) == m.request.arguments.source.path

BpIds(m) == {m.body.breakpoints[k].id : k \in 1..Len(m.body.breakpoints)}

\* the CMD_REMOVE_BREAK packets written for breakpoint id
RemovalsOf(id) ==
    {k \in 1..Len(pipe) :
        pipe[k].cmd_id = "CMD_REMOVE_BREAK" /\ pipe[k].args[3] = id}

\* the last two requests were setBreakpoints for one path, the first with
\* two breakpoints and the second with one
TwoThenOne ==
    /\ Len(sent) >= 2
    /\ IsSetBreakpoints(sent[Len(sent) - 1]) /\ IsSetBreakpoints(Last(sent))
    /\ PathOf(sent[Len(sent) - 1]) = PathOf(Last(sent))
    /\ Len(sent[Len(sent) - 1].request.arguments.breakpoints) = 2
    /\ Len(Last(sent).request.arguments.breakpoints) = 1

\* C6: after setBreakpoints for P with [L1, L2] and then for P with [L3],
\* bp_map tracks one breakpoint for P, the one made for L3; one
\* CMD_REMOVE_BREAK was written for each of the two earlier ids; the second
\* response lists the new breakpoint alone, verified.
C6_ReplaceOnEdit ==
    TwoThenOne =>
      LET first  == sent[Len(sent) - 1]
          second == Last(sent)
          P      == PathOf(second)
          new    == second.body.breakpoints[1].id
      IN  /\ Len(second.body.breakpoints) = 1
          /\ second.body.breakpoints[1] =
                [id |-> new, verified |-> TRUE,
                 line |-> second.request.arguments.breakpoints[1].line]
          /\ new \notin BpIds(first)
          /\ {b \in pydevd_ids(bp_map) : b[1] = P} = {<<P, new>>}
          /\ {e \in vscode_ids(bp_map) : to_pydevd(bp_map, e)[1] = P} = {new}
          /\ Cardinality(BpIds(first)) = 2
          /\ \A old \in BpIds(first) : Cardinality(RemovalsOf(old)) = 1

\* C6's case: the two requests have been handled.
C6_Witness ==
    /\ TwoThenOne
    /\ Cardinality(pydevd_ids(bp_map)) = 1

\* the responses that hold the breakpoints now set in their file: for each
\* path the last setBreakpoints response
LatestFor(k) ==
    /\ IsSetBreakpoints(sent[k])
    /\ \A j \in (k + 1)..Len(sent) :
          IsSetBreakpoints(sent[j]) => PathOf(sent[j]) # PathOf(sent[k])

\* C7: setBreakpoints for P removes the breakpoints of P alone: a
\* breakpoint set in another file Q stays in bp_map, and no
\* CMD_REMOVE_BREAK is written for its id.
C7_OtherPathsKept ==
    \A k \in 1..Len(sent) :
       LatestFor(k) =>
         \A id \in BpIds(sent[k]) :
            /\ <<PathOf(sent[k]), id>> \in pydevd_ids(bp_map)
            /\ RemovalsOf(id) = {}


(***************************************************************************)
(* Claims about the thread map.                                            *)
(***************************************************************************)
Bijective(m) ==
    /\ \A e \in DOMAIN m.v2p :
          m.v2p[e] \in DOMAIN m.p2v /\ m.p2v[m.v2p[e]] = e
    /\ \A b \in DOMAIN m.p2v :
          m.p2v[b] \in DOMAIN m.v2p /\ m.v2p[m.p2v[b]] = b

\* C1: thread_map is a bijection in every reachable state, also when
\* to_vscode is called for one unmapped thread id by the thread of pydevd
\* (a thread-create event) and by the EventLoop (on_threads) at once: the
\* thread has one external id, and every external id has its reverse entry.
C1_Bijection == Bijective(thread_map)

\* the packets a step writes
Written == SubSeq(pipe', Len(pipe) + 1, Len(pipe'))

SuspendsOf(pyd_tid) ==
    {k \in 1..Len(Written) :
        Written[k].cmd_id = "CMD_THREAD_SUSPEND" /\ Written[k].args = pyd_tid}

PauseResponded ==
    /\ Len(sent') = Len(sent) + 1
    /\ Last(sent').type = "response"
    /\ Last(sent').request.command = "pause"

PauseFailed ==
    /\ Len(diag') = Len(diag) + 1
    /\ Last(diag').request.command = "pause"

\* C8: a pause request with threadId 0 writes one CMD_THREAD_SUSPEND for
\* each thread id thread_map holds at that moment and nothing else; a pause
\* request with another threadId writes one CMD_THREAD_SUSPEND, for the
\* thread id mapped to it (and nothing when none is mapped to it).
C8_Pause ==
    [][/\ PauseResponded =>
            LET vsc_tid == Last(sent').request.arguments.threadId
            IN  IF vsc_tid = 0
                THEN /\ Len(Written) = Cardinality(DOMAIN thread_map.p2v)
                     /\ \A t \in DOMAIN thread_map.p2v :
                           Cardinality(SuspendsOf(t)) = 1
                ELSE /\ vsc_tid \in DOMAIN thread_map.v2p
                     /\ Len(Written) = 1
                     /\ SuspendsOf(thread_map.v2p[vsc_tid]) = {1}
       /\ PauseFailed => pipe' = pipe
      ]_vars

\* C8's case: a pause with the sentinel was answered while two threads were
\* known, and a pause for one thread was answered.
C8_Witness ==
    /\ Cardinality(DOMAIN thread_map.p2v) = 2
    /\ Len(pipe) = 3
    /\ \E i, j \in 1..Len(sent) :
          /\ sent[i].type = "response" /\ sent[i].request.command = "pause"
          /\ sent[i].request.arguments.threadId = 0
          /\ sent[j].type = "response" /\ sent[j].request.command = "pause"
          /\ sent[j].request.arguments.threadId # 0

(***************************************************************************)
(* Claims about frames and variables.                                      *)
(***************************************************************************)
\* the elements of a list
Range(s) == {s[k] : k \in 1..Len(s)}

\* the part of an identifier map that belongs to threads other than pyd_tid
OtherThreads(m, pyd_tid) ==
    [v2p |-> [e \in {x \in DOMAIN m.v2p : m.v2p[x][1] # pyd_tid} |-> m.v2p[e]],
     p2v |-> [b \in {x \in DOMAIN m.p2v : x[1] # pyd_tid} |-> m.p2v[b]]]

\* the pair is in neither dictionary of the map
Gone(m, pair) ==
    /\ pair[2] \notin DOMAIN m.v2p
    /\ pair[1] \in DOMAIN m.p2v => m.p2v[pair[1]] # pair[2]

\* the thread of pydevd takes a step of on_pydevd_thread_run for a thread
\* that had cached frames when the handler began
ThreadRunStep(pyd_tid) ==
    /\ backend_pc.pkt.cmd_id = "CMD_THREAD_RUN"
    /\ backend_pc.pkt.args.pyd_tid = pyd_tid
    /\ \/ backend_pc.st \in {"popped", "run_del"} /\ pyd_tid \in DOMAIN stack_traces
       \/ backend_pc.st \in {"run_frames", "run_vars"}
    /\ backend_pc' # backend_pc

\* C9: processing a thread-run event for a suspended thread T removes every
\* frame-map and variable-map entry scoped to T: each snapshot the handler
\* takes holds every entry of T the map has, and when the handler ends none
\* of the entries of its snapshots is left in the maps.  No step of the
\* handler changes an entry scoped to another thread, the thread map, the
\* breakpoint map or the cached frames of another thread, and the cached
\* frames of T are gone once the handler has passed line 490.
C9_ThreadRun ==
    [][\A pyd_tid \in Threads :
         ThreadRunStep(pyd_tid) =>
           /\ OtherThreads(frame_map', pyd_tid) = OtherThreads(frame_map, pyd_tid)
           /\ OtherThreads(var_map', pyd_tid) = OtherThreads(var_map, pyd_tid)
           /\ thread_map' = thread_map
           /\ bp_map' = bp_map
           /\ DictDel(stack_traces', pyd_tid) = DictDel(stack_traces, pyd_tid)
           /\ backend_pc'.st = "run_frames" /\ backend_pc.st = "run_del" =>
                /\ pyd_tid \notin DOMAIN stack_traces'
                /\ Range(backend_pc'.locals.frames) =
                     {p \in pairs(frame_map) : p[1][1] = pyd_tid}
           /\ backend_pc'.st = "run_vars" /\ backend_pc.st = "run_frames" =>
                Range(backend_pc'.locals.vars) =
                  {p \in pairs(var_map) : p[1][1] = pyd_tid}
           /\ backend_pc'.st = "idle" /\ backend_pc.st = "run_vars" =>
                /\ \A p \in Range(backend_pc.locals.frames) : Gone(frame_map', p)
                /\ \A p \in Range(backend_pc.locals.vars) : Gone(var_map', p)
                /\ Last(sent').type = "event"
                /\ Last(sent').event = "continued"]_vars

\* C9 happens: the handler has removed a frame and a variable of its thread
\* and is about to send the continued event, and another thread has a frame
\* in the map
C9_Witness ==
    /\ backend_pc.st = "run_vars"
    /\ backend_pc.locals.pairs = <<>>
    /\ backend_pc.locals.frames # <<>>
    /\ backend_pc.locals.vars # <<>>
    /\ \E p \in pairs(frame_map) : p[1][1] # backend_pc.pkt.args.pyd_tid

\* the handler of the k-th request has not come to its end
InProgress(k) ==
    \/ server_pc.request.seq = k
    \/ loop_pc.request.seq = k
    \/ \E f \in DOMAIN waiting : waiting[f].request.seq = k

ResponsesTo(k) ==
    {i \in 1..Len(sent) : sent[i].type = "response" /\ sent[i].request.seq = k}

\* C10: every request handed to a handler gets exactly one response: never
\* two, and never none once its handler has come to its end.
C10_OneResponse ==
    \A k \in 1..nreq :
       /\ Cardinality(ResponsesTo(k)) <= 1
       /\ ResponsesTo(k) = {} => InProgress(k)

(***************************************************************************)
(* Claims about the threads that run the handlers.                         *)
(***************************************************************************)
\* C11: every response and every event is sent by the EventLoop, the one
\* thread that runs what follows a yield: none is sent by the thread that
\* called send, nor by the thread that reads the requests.
C11_SingleContext ==
    \A i \in 1..Len(sent) : sent[i].by = "loop"

(***************************************************************************)
(* Claims about the session.                                               *)
(***************************************************************************)
\* the positions of a list that satisfy a test
Positions(s, Test(_)) == {i \in 1..Len(s) : Test(s[i])}

IsVersion(pkt) == pkt.cmd_id = "CMD_VERSION"

IsInitializeResponse(m) ==
    m.type = "response" /\ m.request.command = "initialize"

IsInitialized(m) == m.type = "event" /\ m.event = "initialized"

\* the replies to a written CMD_VERSION that send found pending
IsVersionReply(d) ==
    d.pending /\ \E j \in Positions(pipe, IsVersion) : pipe[j].seq = d.pkt.seq

\* C12, the order: every response to initialize carries the capabilities
\* and is the only one to its request; there are never more responses to
\* initialize than handshake replies received, nor more replies received
\* than handshakes written; and up to any point there are never more
\* initialized events than responses to initialize.
C12_Order ==
    /\ \A i \in Positions(sent, IsInitializeResponse) :
          /\ sent[i].body.supportsExceptionInfoRequest
          /\ sent[i].body.supportsConfigurationDoneRequest
          /\ sent[i].body.exceptionBreakpointFilters = <<"raised", "uncaught">>
          /\ \A j \in Positions(sent, IsInitializeResponse) :
                sent[j].request.seq = sent[i].request.seq => j = i
    /\ Cardinality(Positions(sent, IsInitializeResponse))
         <= Cardinality(Positions(delivered, IsVersionReply))
    /\ Cardinality(Positions(delivered, IsVersionReply))
         <= Cardinality(Positions(pipe, IsVersion))
    /\ \A n \in 1..Len(sent) :
          Cardinality(Positions(SubSeq(sent, 1, n), IsInitialized))
            <= Cardinality(Positions(SubSeq(sent, 1, n), IsInitializeResponse))

\* C12: for an initialize request the version handshake is written once,
\* when the request is taken; the response with supportsExceptionInfoRequest,
\* supportsConfigurationDoneRequest and the filters raised and uncaught is
\* sent once and only after the reply to the handshake was received; the
\* initialized event follows the response, once.
C12_Initialize ==
    /\ []C12_Order
    /\ [][Positions(pipe', IsVersion) # Positions(pipe, IsVersion) =>
            /\ Positions(pipe', IsVersion)
                 = Positions(pipe, IsVersion) \cup {Len(pipe')}
            /\ Len(pipe') = Len(pipe) + 1
            /\ nreq' = nreq + 1
            /\ Last(pipe').seq \in DOMAIN waiting'
            /\ waiting'[Last(pipe').seq].request.command = "initialize"
            /\ waiting'[Last(pipe').seq].request.seq = nreq']_vars

\* C12 happens: the handshake was written, its reply received, the response
\* sent and then the initialized event
C12_Witness ==
    \E i \in Positions(sent, IsInitializeResponse) :
       \E j \in Positions(sent, IsInitialized) :
          /\ i < j
          /\ Positions(delivered, IsVersionReply) # {}

(***************************************************************************)
(* Claims about stackTrace.                                                *)
(***************************************************************************)
IsSuspendOf(d, pyd_tid) ==
    d.pkt.cmd_id = "CMD_THREAD_SUSPEND" /\ d.pkt.args.id = pyd_tid

IsRunOf(d, pyd_tid) ==
    d.pkt.cmd_id = "CMD_THREAD_RUN" /\ d.pkt.args.pyd_tid = pyd_tid

\* the packet of pydevd with the i-th place in delivered has been handled
Handled(i) == i < Len(delivered) \/ backend_pc.st = "idle"

\* the place in delivered of the suspend event of pyd_tid that made the
\* thread stop: its stopped event was sent, and pydevd has sent neither a
\* thread-run nor another suspend for the thread since
StoppedAt(pyd_tid) ==
    {i \in 1..Len(delivered) :
       /\ IsSuspendOf(delivered[i], pyd_tid)
       /\ Handled(i)
       /\ \A j \in (i + 1)..Len(delivered) :
             /\ ~IsSuspendOf(delivered[j], pyd_tid)
             /\ ~IsRunOf(delivered[j], pyd_tid)}

SmallerOf(a, b) == IF a < b THEN a ELSE b

\* the frames at positions startFrame .. startFrame+levels-1, all from
\* startFrame on when levels is 0
ExpectedPage(frames, startFrame, levels) ==
    SubSeq(frames, startFrame + 1,
           IF levels = 0 THEN Len(frames)
           ELSE SmallerOf(Len(frames), startFrame + levels))

\* the request the server thread takes in this step
TakenRequest ==
    IF diag' # diag THEN Last(diag').request ELSE server_pc'.request

\* C13: once the stopped event of thread T has been sent and no thread-run
\* for T has come since, a stackTrace request for the external id of T is
\* served from the frames of the latest suspend event of T: its response
\* has totalFrames equal to their number and exactly the frames at positions
\* startFrame .. startFrame+levels-1 in order (all from startFrame on when
\* levels is 0), each with an external frame id of its own that frame_map
\* maps to (T, backend frame id).
C13_StackTrace ==
    [][/\ nreq' = nreq + 1 =>
            \A pyd_tid \in Threads : \A i \in StoppedAt(pyd_tid) :
               /\ TakenRequest.command = "stackTrace"
               /\ TakenRequest.arguments.threadId \in DOMAIN thread_map.v2p
               /\ thread_map.v2p[TakenRequest.arguments.threadId] = pyd_tid
               => /\ diag' = diag
                  /\ server_pc'.st = "stackTrace"
                  /\ server_pc'.locals.tid = pyd_tid
                  /\ server_pc'.locals.frames = delivered[i].pkt.args.frame
       /\ server_pc.st = "stackTrace" /\ server_pc' # server_pc =>
            LET l    == server_pc.locals
                a    == server_pc.request.arguments
                page == ExpectedPage(l.frames, a.startFrame, a.levels)
            IN  IF server_pc'.st = "idle"
                THEN /\ sent' = Append(sent, Last(sent'))
                     /\ Last(sent').type = "response"
                     /\ Last(sent').request = server_pc.request
                     /\ Last(sent').body.totalFrames = Len(l.frames)
                     /\ Len(Last(sent').body.stackFrames) = Len(page)
                     /\ \A k \in 1..Len(page) :
                           LET f == Last(sent').body.stackFrames[k]
                           IN  /\ f.name = page[k].name
                               /\ f.line = page[k].line
                               /\ \A n \in 1..Len(page) :
                                     Last(sent').body.stackFrames[n].id = f.id
                                       => n = k
                ELSE LET k == Len(l.stackFrames) + 1
                         f == Last(server_pc'.locals.stackFrames)
                     IN  /\ Len(server_pc'.locals.stackFrames) = k
                         /\ k <= Len(page)
                         /\ f.id \in DOMAIN frame_map'.v2p
                         /\ frame_map'.v2p[f.id] = <<l.tid, page[k].id>>
                         /\ frame_map'.p2v[<<l.tid, page[k].id>>] = f.id]_vars

\* C13 happens: a stopped thread with two frames was asked for the one
\* frame after the first, and the response was sent
C13_Witness ==
    \E i \in 1..Len(sent) :
       /\ sent[i].type = "response"
       /\ sent[i].request.command = "stackTrace"
       /\ sent[i].request.arguments.startFrame = 1
       /\ sent[i].request.arguments.levels = 1
       /\ sent[i].body.totalFrames = 2
       /\ Len(sent[i].body.stackFrames) = 1

(***************************************************************************)
(* Claims about variables.                                                 *)
(***************************************************************************)
IsVariablesResponse(m) ==
    m.type = "response" /\ m.request.command = "variables"

\* the references the variables responses have handed out
ChildReferences ==
    UNION {UNION {sent[i].body.variables[k].variablesReference :
                    k \in 1..Len(sent[i].body.variables)} :
             i \in Positions(sent, IsVariablesResponse)}

\* C14: a variables request writes CMD_GET_FRAME exactly when the backend
\* id of its container has three components (thread, frame, FRAME) and
\* CMD_GET_VARIABLE otherwise.  Each variable of the reply that is marked
\* as a container gets a variablesReference that var_map maps to the path
\* of the parent with the name of the variable appended, each other one
\* gets none; so a reference handed out this way names a path of more than
\* three components, and a later variables request on it writes
\* CMD_GET_VARIABLE, never CMD_GET_FRAME.
C14_Variables ==
    /\ [](\A r \in ChildReferences :
            r \in DOMAIN var_map.v2p => Len(var_map.v2p[r]) > 3)
    /\ [][/\ \A f \in DOMAIN waiting' \ DOMAIN waiting :
               waiting'[f].request.command = "variables" =>
                 LET ref == waiting'[f].request.arguments.variablesReference
                 IN  /\ ref \in DOMAIN var_map.v2p
                     /\ pipe' = Append(pipe, Last(pipe'))
                     /\ Last(pipe').seq = f
                     /\ Last(pipe').args = var_map.v2p[ref]
                     /\ Len(var_map.v2p[ref]) = 3
                          => Last(pipe').cmd_id = "CMD_GET_FRAME"
                     /\ Len(var_map.v2p[ref]) # 3
                          => Last(pipe').cmd_id = "CMD_GET_VARIABLE"
                     /\ ref \in ChildReferences
                          => Last(pipe').cmd_id = "CMD_GET_VARIABLE"
          /\ loop_pc.st = "variables" /\ loop_pc'.st = "variables"
               /\ loop_pc' # loop_pc =>
               LET xvar == Head(loop_pc.todo)
                   var  == Last(loop_pc'.out)
               IN  /\ Len(loop_pc'.out) = Len(loop_pc.out) + 1
                   /\ var.name = xvar.name
                   /\ IF xvar.isContainer = "True"
                      THEN \E r \in DOMAIN var_map'.v2p :
                             /\ var.variablesReference = {r}
                             /\ var_map'.v2p[r]
                                  = loop_pc.locals.pyd_var \o <<xvar.name>>
                      ELSE /\ var.variablesReference = {}
                           /\ var_map' = var_map]_vars

\* C14 happens: a variables request on the container of a frame was
\* answered with a scalar and a container x, and a later variables request
\* on the reference of x wrote CMD_GET_VARIABLE
C14_Witness ==
    \E i \in Positions(sent, IsVariablesResponse) :
       /\ Len(sent[i].body.variables) = 2
       /\ sent[i].body.variables[1].variablesReference = {}
       /\ sent[i].body.variables[2].name = "x"
       /\ \E j \in 1..Len(pipe) :
             /\ pipe[j].cmd_id = "CMD_GET_VARIABLE"
             /\ Len(pipe[j].args) = 4
             /\ pipe[j].args[4] = "x"
             /\ \E n \in 1..(j - 1) :
                   /\ pipe[n].cmd_id = "CMD_GET_FRAME"
                   /\ pipe[n].args = SubSeq(pipe[j].args, 1, 3)

(***************************************************************************)
(* Claims about thread-run events.                                         *)
(***************************************************************************)
IsContinued(m) == m.type = "event" /\ m.event = "continued"

\* the thread-run events for pyd_tid whose handler has come to its end
RunsHandled(pyd_tid) ==
    {i \in 1..Len(delivered) : IsRunOf(delivered[i], pyd_tid) /\ Handled(i)}

\* C15: every thread-run event for a thread T, with or without cached
\* frames for T, ends with no cached frames for T and with one continued
\* event sent that carries the external id of T: once the handler of the
\* latest packet about T has ended and that packet was a thread-run, T has
\* no cached frames, and there are as many continued events for the ids of
\* T as thread-run events handled for T.
C15_RunContinues ==
    \A pyd_tid \in Threads :
       /\ \A i \in RunsHandled(pyd_tid) :
             (\A j \in (i + 1)..Len(delivered) :
                 ~IsSuspendOf(delivered[j], pyd_tid))
               => pyd_tid \notin DOMAIN stack_traces
       /\ Cardinality(RunsHandled(pyd_tid))
            = Cardinality({i \in Positions(sent, IsContinued) :
                             /\ sent[i].body.threadId \in DOMAIN thread_map.v2p
                             /\ thread_map.v2p[sent[i].body.threadId] = pyd_tid})

(***************************************************************************)
(* Claims about the threads handler and thread-kill events.                *)
(***************************************************************************)
\* the replies to CMD_LIST_THREADS that send found pending
Listings ==
    {i \in 1..Len(delivered) :
       delivered[i].pending /\ delivered[i].pkt.cmd_id = "CMD_RETURN"}

\* the threads pydevd has only ever named as internal ones: listed under a
\* name with the prefix pydevd., never under another name, and never the
\* subject of a thread-create event
InternalOnly ==
    {t \in Threads :
       /\ \E i \in Listings : \E k \in 1..Len(delivered[i].pkt.args) :
             /\ delivered[i].pkt.args[k].id = t
             /\ IsInternal(delivered[i].pkt.args[k].name)
       /\ \A i \in Listings : \A k \in 1..Len(delivered[i].pkt.args) :
             delivered[i].pkt.args[k].id = t
               => IsInternal(delivered[i].pkt.args[k].name)
       /\ \A i \in 1..Len(delivered) :
             delivered[i].pkt.cmd_id = "CMD_THREAD_CREATE"
               => delivered[i].pkt.args.id # t}

\* C16: the threads handler gives external ids only to the threads that
\* pass the filter on the name: a thread whose name starts with pydevd. is
\* not in the response, has no entry in thread_map, and is sent no
\* CMD_THREAD_SUSPEND by a pause of all threads.
C16_InternalUnmapped ==
    \A t \in InternalOnly :
       /\ t \notin DOMAIN thread_map.p2v
       /\ \A e \in DOMAIN thread_map.v2p : thread_map.v2p[e] # t
       /\ \A j \in 1..Len(pipe) :
             pipe[j].cmd_id = "CMD_THREAD_SUSPEND" => pipe[j].args # t

\* the thread of pydevd takes a step of on_pydevd_thread_kill
ThreadKillStep ==
    /\ backend_pc.st = "popped"
    /\ backend_pc.fut = {}
    /\ backend_pc.pkt.cmd_id = "CMD_THREAD_KILL"
    /\ backend_pc' # backend_pc

\* C17: a thread-kill event for a thread without an entry in thread_map
\* sends nothing, raises nothing and maps nothing; a thread-kill event for
\* a mapped thread sends one thread event with reason exited and the id the
\* thread has.  Either way thread_map is left as it was and the handler
\* ends.
C17_ThreadKill ==
    [][ThreadKillStep =>
         LET pyd_tid == backend_pc.pkt.args
         IN  /\ thread_map' = thread_map
             /\ diag' = diag
             /\ backend_pc'.st = "idle"
             /\ IF pyd_tid \in DOMAIN thread_map.p2v
                THEN /\ sent' = Append(sent, Last(sent'))
                     /\ Last(sent').type = "event"
                     /\ Last(sent').event = "thread"
                     /\ Last(sent').body.reason = "exited"
                     /\ Last(sent').body.threadId = thread_map.p2v[pyd_tid]
                ELSE sent' = sent]_vars

\* C17 happens: a thread-kill event for a mapped thread was handled and its
\* thread event with reason exited was the last thing sent
C17_Witness ==
    /\ backend_pc.st = "idle"
    /\ delivered # <<>>
    /\ Last(delivered).pkt.cmd_id = "CMD_THREAD_KILL"
    /\ Last(delivered).pkt.args \in DOMAIN thread_map.p2v
    /\ sent # <<>>
    /\ Last(sent).type = "event"
    /\ Last(sent).event = "thread"
    /\ Last(sent).body.reason = "exited"

(***************************************************************************)
(* Claims about failing handlers.                                          *)
(***************************************************************************)
\* the server thread takes a request and its handler raises
HandlerFails ==
    /\ diag' # diag
    /\ Last(diag').by = "server"

\* C18: when a request handler fails (stackTrace for a thread without
\* cached frames, exceptionInfo for a thread without an exception, any
\* request that names an unmapped id), the failure is caught where the
\* handler was called: its traceback is printed, no response is ever sent
\* for the request, the maps, the caches and the socket are as before, and
\* the server thread is free to take the next request.
C18_FailureCaught ==
    /\ [](\A i \in 1..Len(diag) :
            diag[i].by = "server" => ResponsesTo(diag[i].request.seq) = {})
    /\ [][HandlerFails =>
            /\ diag' = Append(diag, Last(diag'))
            /\ nreq' = nreq + 1
            /\ Last(diag').request.seq = nreq'
            /\ sent' = sent
            /\ mapVars' = mapVars
            /\ cacheVars' = cacheVars
            /\ pipe' = pipe
            /\ requests' = requests
            /\ waiting' = waiting
            /\ server_pc = ServerIdle
            /\ server_pc' = ServerIdle]_vars

\* C18 happens: a stackTrace request failed for a mapped thread without
\* cached frames, and a request taken after it got its response
C18_Witness ==
    \E i \in 1..Len(diag) :
       /\ diag[i].by = "server"
       /\ diag[i].request.command = "stackTrace"
       /\ diag[i].request.arguments.threadId \in DOMAIN thread_map.v2p
       /\ \E j \in 1..Len(sent) :
             /\ sent[j].type = "response"
             /\ sent[j].request.seq > diag[i].request.seq

(***************************************************************************)
(* Claims about pydevd_request against send.                               *)
(***************************************************************************)
\* the sequence numbers of the requests pydevd can have read
WrittenRequests ==
    {pipe[k].seq : k \in {j \in 1..Len(pipe) : pipe[j].cmd_id = "CMD_VERSION"}}

\* the sequence numbers whose packet send found in the table
FoundPending ==
    {delivered[k].pkt.seq : k \in {j \in 1..Len(delivered) :
                                     delivered[j].pending}}

\* send takes a packet that has the number of a written request, and is
\* the first to
FirstReply ==
    /\ Len(delivered') = Len(delivered) + 1
    /\ delivered' = Append(delivered, Last(delivered'))
    /\ Last(delivered').pkt.seq \in WrittenRequests
    /\ \A k \in 1..Len(delivered) :
          delivered[k].pkt.seq # Last(delivered').pkt.seq

\* C19: a request is in the table of pending requests from the moment its
\* packet can be read: every written request is in the table or was found
\* there by send, and the first packet that comes with the number of a
\* written request is found pending and handed to the loop, never
\* dispatched as an event.
C19_RegisteredFirst ==
    /\ [](WrittenRequests \subseteq (DOMAIN requests) \cup FoundPending)
    /\ [][FirstReply =>
            /\ Last(delivered').pending
            /\ backend_pc'.fut = {Last(delivered').pkt.seq}
            /\ dispatched' = dispatched]_vars

\* C19 happens: both threads made a request, the later one is written and
\* its reply was found pending while the earlier one is still to be
\* written
C19_Witness ==
    /\ Len(delivered) = 1
    /\ delivered[1].pending
    /\ delivered[1].pkt.seq \in WrittenRequests
    /\ \E c \in ChanCallers :
          /\ chan_pc[c].st = "request"
          /\ chan_pc[c].pkt.seq < delivered[1].pkt.seq

(***************************************************************************)
(* Claims about the caches of a resumed thread.                            *)
(***************************************************************************)
\* the entries of a map, in either dictionary, that are scoped to the thread
ScopedEntries(m, pyd_tid) ==
    {p \in pairs(m) : scoped_to(p[1], pyd_tid)}
    \cup {<<m.v2p[e], e>> : e \in {x \in DOMAIN m.v2p :
                                     scoped_to(m.v2p[x], pyd_tid)}}

\* the thread of pydevd is inside on_pydevd_thread_run for the thread
RunInProgress(pyd_tid) ==
    /\ backend_pc.st # "idle"
    /\ IsRunOf([pkt |-> backend_pc.pkt], pyd_tid)

\* C20: whenever a thread T has no cached frame list and no thread-run
\* handler for T is at work, frame_map and var_map hold no entry scoped to
\* T, however the thread-run events interleave with the stackTrace, scopes
\* and variables handlers.
C20_NoStaleEntries ==
    \A pyd_tid \in Threads :
       (pyd_tid \notin DOMAIN stack_traces /\ ~RunInProgress(pyd_tid))
         => /\ ScopedEntries(frame_map, pyd_tid) = {}
            /\ ScopedEntries(var_map, pyd_tid) = {}

(***************************************************************************)
(* Claims about IDMap.remove.                                              *)
(***************************************************************************)
\* a thread calls remove with these keys and the call raises KeyError
RemoveRaises(ps, vs) ==
    /\ remove(idmap, ps, vs).raised
    /\ \E c \in APICallers : ApiRemove(c, ps, vs)

\* C21: a remove call that raises KeyError leaves the map as it was in
\* both directions, whichever keys it was given: a backend id alone, an
\* external id alone, neither, or both with one of them not mapped or the
\* two not of one pair.
C21_RemoveRaisesUnchanged ==
    [][\A ps \in OptionalOf(BackendIds), vs \in OptionalOf(1..MaxIds) :
          RemoveRaises(ps, vs) => idmap' = idmap]_vars

====
